---- MODULE Spec2Model ----
(***************************************************************************)
(* Model of the HCP status aggregation code of osdctl                      *)
(* (src/cmd/cluster/resizenode.go, second package "status", and the types  *)
(* of src/unnamed/part_001).                                               *)
(*                                                                         *)
(* Go strings that the code prefixes, splits, sorts, formats or parses     *)
(* character by character (document keys, the cluster ID, feedback names   *)
(* and feedback payloads) are sequences of one-character strings.  Go      *)
(* strings that are only compared for equality or handed to time.Parse are *)
(* TLA+ strings.  A nil pointer or nil error is <<>>, a non-nil one <<v>>. *)
(***************************************************************************)
EXTENDS FiniteSets, Integers, Sequences, TLC

\* resources, clusterID: the arguments of parseLiveResources; last, prev: the
\* latest calls of it.  input, output: the argument and the result of one
\* call of a single parser (<<>> before the call, and in Spec throughout).
VARIABLES resources, clusterID, last, prev, input, output

\* The node-resize workflow: the command that runs, its position, the
\* cluster the OCM/kubectl context points at, the calls it has made of
\* subprocesses, the AWS client and the terminal, each with its outcome, and
\* dialogResponse of drainNode.
VARIABLES command, pc, context, calls, dialogResponse

workflow == <<command, pc, context, calls, dialogResponse>>

vars == <<resources, clusterID, last, prev, input, output, workflow>>

\* Largest number of entries of the input mapping.
MaxEntries == 2

----------------------------------------------------------------------------
(* Package strings, sort, strconv, fmt: the operations the parsers use.    *)

\* Byte value of the characters that occur in document keys.
ByteOf ==
  ("-" :> 45) @@ ("_" :> 95) @@ ("a" :> 97) @@ ("b" :> 98) @@ ("c" :> 99) @@
  ("e" :> 101) @@ ("f" :> 102) @@ ("i" :> 105) @@ ("k" :> 107) @@
  ("m" :> 109) @@ ("n" :> 110) @@ ("o" :> 111) @@ ("r" :> 114) @@
  ("s" :> 115) @@ ("t" :> 116) @@ ("w" :> 119)

\* strings.HasPrefix(s, prefix)
HasPrefix(s, prefix) ==
  Len(s) >= Len(prefix) /\ SubSeq(s, 1, Len(prefix)) = prefix

\* Go's < on strings: bytewise lexicographic order.
RECURSIVE StringLess(_, _)
StringLess(a, b) ==
  IF b = <<>> THEN FALSE
  ELSE IF a = <<>> THEN TRUE
  ELSE IF a[1] = b[1] THEN StringLess(Tail(a), Tail(b))
  ELSE ByteOf[a[1]] < ByteOf[b[1]]

RECURSIVE InsertSorted(_, _)
InsertSorted(x, s) ==
  IF s = <<>> THEN <<x>>
  ELSE IF StringLess(Head(s), x) THEN <<Head(s)>> \o InsertSorted(x, Tail(s))
  ELSE <<x>> \o s

\* SortStrings without the sort: the keys stay in map iteration order.
SortStrings_Unsorted(s) == s

\* sort.Strings(s): s in ascending order.
RECURSIVE SortStrings(_)
SortStrings(s) ==
  IF s = <<>> THEN <<>> ELSE InsertSorted(Head(s), SortStrings(Tail(s)))

\* Index of the first occurrence of character c in s, 0 when there is none.
RECURSIVE IndexFrom(_, _, _)
IndexFrom(s, c, i) ==
  IF i > Len(s) THEN 0 ELSE IF s[i] = c THEN i ELSE IndexFrom(s, c, i + 1)

\* SplitN2 that splits at the last hyphen.
SplitN2_LastHyphen(s) ==
  LET hyphens == {j \in 1..Len(s) : s[j] = "-"}
      i == IF hyphens = {} THEN 0
           ELSE CHOOSE j \in hyphens : \A k \in hyphens : k <= j
  IN  IF i = 0 THEN <<s>>
      ELSE <<SubSeq(s, 1, i - 1), SubSeq(s, i + 1, Len(s))>>

\* strings.SplitN(s, "-", 2)
SplitN2(s) ==
  LET i == IndexFrom(s, "-", 1)
  IN  IF i = 0 THEN <<s>>
      ELSE <<SubSeq(s, 1, i - 1), SubSeq(s, i + 1, Len(s))>>

\* strings.Split(s, ",")
RECURSIVE SplitComma(_)
SplitComma(s) ==
  LET i == IndexFrom(s, ",", 1)
  IN  IF i = 0 THEN <<s>>
      ELSE <<SubSeq(s, 1, i - 1)>> \o SplitComma(SubSeq(s, i + 1, Len(s)))

Digits == <<"0", "1", "2", "3", "4", "5", "6", "7", "8", "9">>

IsDigit(c) == \E i \in 1..Len(Digits) : Digits[i] = c

DigitValue(c) == (CHOOSE i \in 1..Len(Digits) : Digits[i] = c) - 1

RECURSIVE NatToChars(_)
NatToChars(n) ==
  IF n < 10 THEN <<Digits[n + 1]>>
  ELSE NatToChars(n \div 10) \o <<Digits[(n % 10) + 1]>>

\* fmt.Sprintf("%d", n)
SprintfD(n) == IF n < 0 THEN <<"-">> \o NatToChars(0 - n) ELSE NatToChars(n)

RECURSIVE DigitsToNat(_, _)
DigitsToNat(s, acc) ==
  IF s = <<>> THEN acc
  ELSE DigitsToNat(Tail(s), acc * 10 + DigitValue(Head(s)))

\* strconv.Atoi(s): an optional sign followed by one or more decimal digits.
Atoi(s) ==
  LET signed == s # <<>> /\ s[1] \in {"+", "-"}
      body   == IF signed THEN Tail(s) ELSE s
  IN  IF body = <<>> \/ \E i \in 1..Len(body) : ~IsDigit(body[i])
      THEN [n |-> 0, ok |-> FALSE]
      ELSE [n  |-> IF signed /\ s[1] = "-" THEN 0 - DigitsToNat(body, 0)
                   ELSE DigitsToNat(body, 0),
            ok |-> TRUE]

\* A time.Time: its instant, as the day after 0001-01-01 in UTC, the second
\* of that day and the nanosecond of that second, and the offset of its zone
\* in seconds east of UTC.
Time(day, sec, nsec, off) == [day |-> day, sec |-> sec, nsec |-> nsec, off |-> off]

\* time.Time{}
ZeroTime == Time(0, 0, 0, 0)

\* t.IsZero()
IsZero(t) == t.day = 0 /\ t.sec = 0 /\ t.nsec = 0

\* t.After(u)
After(t, u) ==
  \/ t.day > u.day
  \/ t.day = u.day /\ t.sec > u.sec
  \/ t.day = u.day /\ t.sec = u.sec /\ t.nsec > u.nsec

\* t.Equal(u)
SameInstant(t, u) == t.day = u.day /\ t.sec = u.sec /\ t.nsec = u.nsec

IsLeap(year) == year % 4 = 0 /\ (year % 100 # 0 \/ year % 400 = 0)

\* The days of month in year.
daysIn(month, year) ==
  IF month = 2 THEN (IF IsLeap(year) THEN 29 ELSE 28)
  ELSE IF month \in {4, 6, 9, 11} THEN 30 ELSE 31

\* The days of a year that is no leap year before each month, and after
\* the last.
daysBefore == <<0, 31, 59, 90, 120, 151, 181, 212, 243, 273, 304, 334, 365>>

\* The days of year before month.
DaysBeforeMonth(month, year) ==
  daysBefore[month] + (IF month > 2 /\ IsLeap(year) THEN 1 ELSE 0)

\* The days from 0001-01-01 to the first day of year.
DaysBeforeYear(year) ==
  365 * (year - 1) + ((year - 1) \div 4) - ((year - 1) \div 100)
    + ((year - 1) \div 400)

\* time.Date(year, month, day, hour, min, sec, nsec, UTC) moved by the zone
\* offset off, in the zone of that offset.
Date(year, month, day, hour, min, sec, nsec, off) ==
  LET seconds == hour * 3600 + min * 60 + sec - off
  IN  Time(DaysBeforeYear(year) + DaysBeforeMonth(month, year) + day - 1
             + (seconds \div 86400),
           seconds % 86400, nsec, off)

\* The value of a decimal digit.
DigitOf ==
  ("0" :> 0) @@ ("1" :> 1) @@ ("2" :> 2) @@ ("3" :> 3) @@ ("4" :> 4) @@
  ("5" :> 5) @@ ("6" :> 6) @@ ("7" :> 7) @@ ("8" :> 8) @@ ("9" :> 9)

\* isDigit(s, i) for n characters from i on.
IsNum(s, i, n) ==
  i + n - 1 <= Len(s) /\ \A k \in i..(i + n - 1) : s[k] \in DOMAIN DigitOf

\* The number spelled by the n digits of s from i on.
RECURSIVE Num(_, _, _)
Num(s, i, n) ==
  IF n = 0 THEN 0 ELSE Num(s, i, n - 1) * 10 + DigitOf[s[i + n - 1]]

\* The digits of s from i on, as far as they go.
RECURSIVE DigitRun(_, _)
DigitRun(s, i) ==
  IF i <= Len(s) /\ s[i] \in DOMAIN DigitOf THEN 1 + DigitRun(s, i + 1) ELSE 0

\* 10 to the power n.
RECURSIVE Pow10(_)
Pow10(n) == IF n = 0 THEN 1 ELSE 10 * Pow10(n - 1)

\* The width of a fractional second at position i of s (separator and
\* digits), 0 when there is none.
FractionWidth(s, i) ==
  IF i + 1 <= Len(s) /\ s[i] \in {".", ","} /\ s[i + 1] \in DOMAIN DigitOf
  THEN 1 + DigitRun(s, i + 1) ELSE 0

\* parseNanoseconds: the first nine digits of a fraction of width w at i.
Nanoseconds(s, i, w) ==
  IF w = 0 THEN 0
  ELSE LET n == IF w > 10 THEN 9 ELSE w - 1
       IN  Num(s, i + 1, n) * Pow10(9 - n)

\* The offset of the zone at position i of s, which is the rest of s: 0 for
\* Z, or a sign, two digits, a colon and two digits, with hours up to 24 and
\* minutes up to 60; <<>> for anything else.
ParseZone(s, i) ==
  IF i = Len(s) /\ s[i] = "Z" THEN <<0>>
  ELSE IF /\ Len(s) = i + 5
          /\ s[i] \in {"+", "-"}
          /\ IsNum(s, i + 1, 2)
          /\ s[i + 3] = ":"
          /\ IsNum(s, i + 4, 2)
          /\ Num(s, i + 1, 2) <= 24
          /\ Num(s, i + 4, 2) <= 60
  THEN <<(IF s[i] = "-" THEN -1 ELSE 1)
           * (Num(s, i + 1, 2) * 3600 + Num(s, i + 4, 2) * 60)>>
  ELSE <<>>

\* The checks of the ranges once every field is read, and the result.
ParsedFields(year, month, day, hour, min, sec, nsec, zone) ==
  IF /\ month \in 1..12
     /\ hour < 24 /\ min < 60 /\ sec < 60
     /\ zone # <<>>
     /\ day \in 1..daysIn(month, year)
  THEN [t |-> Date(year, month, day, hour, min, sec, nsec, zone[1]), ok |-> TRUE]
  ELSE [t |-> ZeroTime, ok |-> FALSE]

\* The rest of time.Parse from the minute on, which begins at position m,
\* for a fractional second of width w.
ParseClock(s, m, w) ==
  ParsedFields(Num(s, 1, 4), Num(s, 6, 2), Num(s, 9, 2), Num(s, 12, m - 12),
               Num(s, m + 1, 2), Num(s, m + 4, 2), Nanoseconds(s, m + 6, w),
               ParseZone(s, m + 6 + w))

\* The literals and digits of the layout up to the second, for a minute
\* that begins at position m.
ParseShape(s, m) ==
  IF /\ Len(s) >= m + 6
     /\ IsNum(s, 1, 4) /\ s[5] = "-"
     /\ IsNum(s, 6, 2) /\ s[8] = "-"
     /\ IsNum(s, 9, 2) /\ s[11] = "T"
     /\ s[m] = ":" /\ IsNum(s, m + 1, 2)
     /\ s[m + 3] = ":" /\ IsNum(s, m + 4, 2)
  THEN ParseClock(s, m, FractionWidth(s, m + 6))
  ELSE [t |-> ZeroTime, ok |-> FALSE]

\* time.Parse(time.RFC3339, s): [t, ok], ok FALSE for an error.  The layout
\* is 2006-01-02T15:04:05Z07:00: a four-digit year, two-digit month and day
\* that exist in the calendar, an hour of one or two digits, two-digit
\* minute and second, an optional fractional second, and the zone.
ParseTime(s) ==
  IF Len(s) >= 13 /\ s[12] \in DOMAIN DigitOf
  THEN ParseShape(s, IF s[13] \in DOMAIN DigitOf THEN 14 ELSE 13)
  ELSE [t |-> ZeroTime, ok |-> FALSE]

\* Timestamp texts of the documents.
TS_1000 ==
  <<"2", "0", "2", "6", "-", "0", "2", "-", "0", "7", "T", "1", "0", ":",
    "0", "0", ":", "0", "0", "Z">>
TS_1005 ==
  <<"2", "0", "2", "6", "-", "0", "2", "-", "0", "7", "T", "1", "0", ":",
    "0", "5", ":", "0", "0", "Z">>
TS_1010 ==
  <<"2", "0", "2", "6", "-", "0", "2", "-", "0", "7", "T", "1", "0", ":",
    "1", "0", ":", "0", "0", "Z">>
TS_1200East ==
  <<"2", "0", "2", "6", "-", "0", "2", "-", "0", "7", "T", "1", "2", ":",
    "0", "0", ":", "0", "0", "+", "0", "2", ":", "0", "0">>
TS_April ==
  <<"2", "0", "2", "6", "-", "0", "4", "-", "0", "7", "T", "1", "2", ":",
    "0", "0", ":", "0", "0", "Z">>
TS_May ==
  <<"2", "0", "2", "6", "-", "0", "5", "-", "0", "7", "T", "1", "2", ":",
    "0", "0", ":", "0", "0", "Z">>
TS_NotATime ==
  <<"n", "o", "t", "-", "a", "-", "t", "i", "m", "e">>
TS_YearZero ==
  <<"0", "0", "0", "0", "-", "1", "2", "-", "3", "1", "T", "2", "3", ":",
    "0", "0", ":", "0", "0", "Z">>
TS_Tomorrow ==
  <<"t", "o", "m", "o", "r", "r", "o", "w">>

----------------------------------------------------------------------------
(* Documents.  A document is the raw JSON text of one resource; Documents  *)
(* gives, for each text, what encoding/json sees in it:                    *)
(*   syntaxOK  FALSE for text that is not JSON ("{not valid json")         *)
(*   badPaths  the JSON paths whose value has a type the Go struct field   *)
(*             of that path cannot hold (json.UnmarshalTypeError)          *)
(* and the values of the paths the four parsers read.                      *)

\* Feedback names and payloads, spelled out.
N_AvailableStatus ==
  <<"A", "v", "a", "i", "l", "a", "b", "l", "e", "-", "S", "t", "a", "t", "u", "s">>
N_ReadyStatus == <<"R", "e", "a", "d", "y", "-", "S", "t", "a", "t", "u", "s">>
N_VersionCurrent ==
  <<"V", "e", "r", "s", "i", "o", "n", "-", "C", "u", "r", "r", "e", "n", "t">>
N_VersionAvailableUpdates ==
  <<"V", "e", "r", "s", "i", "o", "n", "-", "A", "v", "a", "i", "l", "a", "b",
    "l", "e", "U", "p", "d", "a", "t", "e", "s">>
N_VersionDesired ==
  <<"V", "e", "r", "s", "i", "o", "n", "-", "D", "e", "s", "i", "r", "e", "d">>
N_VersionStatus ==
  <<"V", "e", "r", "s", "i", "o", "n", "-", "S", "t", "a", "t", "u", "s">>
N_VersionImage ==
  <<"V", "e", "r", "s", "i", "o", "n", "-", "I", "m", "a", "g", "e">>
N_Replicas == <<"R", "e", "p", "l", "i", "c", "a", "s">>
N_Version == <<"V", "e", "r", "s", "i", "o", "n">>
F_Status == <<"S", "t", "a", "t", "u", "s">>
F_Reason == <<"R", "e", "a", "s", "o", "n">>
F_Message == <<"M", "e", "s", "s", "a", "g", "e">>
F_LastTransitionTime ==
  <<"L", "a", "s", "t", "T", "r", "a", "n", "s", "i", "t", "i", "o", "n",
    "T", "i", "m", "e">>
N_AvailableReason ==
  <<"A", "v", "a", "i", "l", "a", "b", "l", "e", "-", "R", "e", "a", "s", "o", "n">>
N_AvailableMessage ==
  <<"A", "v", "a", "i", "l", "a", "b", "l", "e", "-", "M", "e", "s", "s", "a", "g", "e">>
N_EtcdReadyStatus ==
  <<"E", "t", "c", "d", "-", "R", "e", "a", "d", "y", "-", "S", "t", "a", "t", "u", "s">>
S_True == <<"T", "r", "u", "e">>
S_False == <<"F", "a", "l", "s", "e">>
S_V41 == <<"4", ".", "1">>
S_Updates == <<"4", ".", "2", ",", "4", ".", "3">>

\* FeedbackValue{Name, FieldValue{Type, String, Integer}}
StringValue(name, s) ==
  [Name |-> name, FieldValue |-> [Type |-> "String", String |-> s, Integer |-> 0]]

IntegerValue(name, n) ==
  [Name |-> name, FieldValue |-> [Type |-> "Integer", String |-> <<>>, Integer |-> n]]

\* A feedback value with the three fields of its FieldValue given one by one.
TypedValue(name, type, s, n) ==
  [Name |-> name, FieldValue |-> [Type |-> type, String |-> s, Integer |-> n]]

Manifest(kind, name, values) == [Kind |-> kind, Name |-> name, Values |-> values]

MgmtLabel == "api.openshift.com/management-cluster"

NoLabels == [l \in {} |-> ""]

Documents ==
  [ DocMain |->
      [ syntaxOK |-> TRUE, badPaths |-> {},
        name |-> "testid", labels |-> (MgmtLabel :> "hs-mc-abc"),
        conditions |->
          << [type |-> "Applied", status |-> "True",
              lastTransitionTime |-> TS_1000],
             [type |-> "Available", status |-> "True",
              lastTransitionTime |-> TS_1005] >>,
        manifests |->
          << Manifest("HostedCluster", "my-cluster",
               << StringValue(N_AvailableStatus, S_True),
                  StringValue(N_VersionCurrent, S_V41),
                  StringValue(N_VersionAvailableUpdates, S_Updates) >>),
             Manifest("Certificate", "kube-api", <<>>),
             Manifest("NodePool", "np0", << IntegerValue(N_Replicas, 3) >>) >>,
        dnsNames |-> <<>>, notAfter |-> <<>>, renewalTime |-> <<>> ],
    DocWorkers |->
      [ syntaxOK |-> TRUE, badPaths |-> {},
        name |-> "testid-workers", labels |-> NoLabels,
        conditions |->
          << [type |-> "Available", status |-> "True",
              lastTransitionTime |-> TS_1010],
             [type |-> "Applied", status |-> "False",
              lastTransitionTime |-> TS_NotATime] >>,
        manifests |->
          << Manifest("NodePool", "workers",
               << StringValue(N_ReadyStatus, S_True),
                  IntegerValue(N_Replicas, 2),
                  StringValue(N_Version, S_V41) >>),
             Manifest("ConfigMap", "cm", << IntegerValue(N_Replicas, 7) >>),
             Manifest("NodePool", "infra",
               << StringValue(N_Replicas, S_True) >>) >>,
        dnsNames |-> <<>>, notAfter |-> <<>>, renewalTime |-> <<>> ],
    DocSyntax |->
      [ syntaxOK |-> FALSE, badPaths |-> {},
        name |-> "", labels |-> NoLabels, conditions |-> <<>>,
        manifests |-> <<>>,
        dnsNames |-> <<>>, notAfter |-> <<>>, renewalTime |-> <<>> ],
    DocBadLabels |->
      [ syntaxOK |-> TRUE, badPaths |-> {"metadata.labels"},
        name |-> "typed-labels", labels |-> NoLabels,
        conditions |->
          << [type |-> "Applied", status |-> "True",
              lastTransitionTime |-> TS_1200East] >>,
        manifests |->
          << Manifest("NodePool", "np1", << IntegerValue(N_Replicas, 12) >>) >>,
        dnsNames |-> <<>>, notAfter |-> <<>>, renewalTime |-> <<>> ],
    DocBadManifests |->
      [ syntaxOK |-> TRUE, badPaths |-> {"status.resourceStatus"},
        name |-> "typed-manifests", labels |-> (MgmtLabel :> "hs-mc-xyz"),
        conditions |-> <<>>, manifests |-> <<>>,
        dnsNames |-> <<>>, notAfter |-> <<>>, renewalTime |-> <<>> ],
    DocCertReady |->
      [ syntaxOK |-> TRUE, badPaths |-> {},
        name |-> "", labels |-> NoLabels,
        conditions |-> << [type |-> "Ready", status |-> "True",
                           lastTransitionTime |-> <<>>] >>,
        manifests |-> <<>>,
        dnsNames |-> << "*.apps.example.com" >>,
        notAfter |-> TS_May,
        renewalTime |-> TS_April ],
    DocCertNotReady |->
      [ syntaxOK |-> TRUE, badPaths |-> {},
        name |-> "", labels |-> NoLabels,
        conditions |-> << [type |-> "Issuing", status |-> "True",
                           lastTransitionTime |-> <<>>],
                          [type |-> "Ready", status |-> "False",
                           lastTransitionTime |-> <<>>] >>,
        manifests |-> <<>>,
        dnsNames |-> << "api.example.com", "*.apps.example.com" >>,
        notAfter |-> TS_Tomorrow, renewalTime |-> <<>> ] ]

\* The JSON paths each parser's struct declares.
SyncPaths == {"metadata.name", "status.conditions"}
MainPaths == {"metadata.labels", "status.resourceStatus"}
NodePoolPaths == {"status.resourceStatus"}
CertPaths ==
  {"spec.dnsNames", "status.conditions", "status.notAfter", "status.renewalTime"}

\* json.Unmarshal(text, &v) returns an error.
UnmarshalFails(doc, paths) == ~doc.syntaxOK \/ doc.badPaths \cap paths # {}

\* fmt.Errorf(format, args..., err) with err wrapped by %w.
Errorf(format, args, err) == [format |-> format, args |-> args, wraps |-> err]

\* The error of json.Unmarshal wrapped as "invalid JSON: %w".
InvalidJSON(doc) ==
  Errorf("invalid JSON: %w", <<>>,
         <<[format |-> IF doc.syntaxOK THEN "json: cannot unmarshal"
                       ELSE "invalid character",
            args |-> <<>>, wraps |-> <<>>]>>)

----------------------------------------------------------------------------
(* The parsers.  Each returns [val, err]; err is <<>> for a nil error.     *)

\* Known condition fields (conditionFields).
conditionFields == {F_Status, F_Reason, F_Message, F_LastTransitionTime}

\* nonConditionPrefixes without the Version prefix.
nonConditionPrefixes_Empty == {}

\* Prefixes that are not conditions even if they match Type-Field.
nonConditionPrefixes == {N_Version}

\* Condition{Type: condType}
NewCondition(condType) ==
  [Type |-> condType, Status |-> <<>>, Reason |-> <<>>, Message |-> <<>>,
   LastTransitionTime |-> <<>>]

\* FieldText that reads the string payload whatever the type.
FieldText_IgnoresType(fieldValue) == fieldValue.String

\* val: the string payload, or the integer payload in decimal.
FieldText(fieldValue) ==
  IF fieldValue.Type = "Integer" THEN SprintfD(fieldValue.Integer)
  ELSE fieldValue.String

\* The switch on field: c with val stored in the field.
WithField(c, field, val) ==
  IF field = F_Status THEN [c EXCEPT !.Status = val]
  ELSE IF field = F_Reason THEN [c EXCEPT !.Reason = val]
  ELSE IF field = F_Message THEN [c EXCEPT !.Message = val]
  ELSE [c EXCEPT !.LastTransitionTime = val]

\* SetConditionField that records condType in conditionOrder on every entry,
\* not only on first sight.
SetConditionField_AlwaysAppend(acc, condType, field, val) ==
  [acc EXCEPT
     !.conditionMap =
        (condType :> WithField(IF condType \in DOMAIN acc.conditionMap
                               THEN acc.conditionMap[condType]
                               ELSE NewCondition(condType), field, val))
          @@ acc.conditionMap,
     !.conditionOrder = Append(acc.conditionOrder, condType)]

\* The condition branch: the condition of condType, created on first
\* sight, gets val in its field.
SetConditionField(acc, condType, field, val) ==
  IF condType \in DOMAIN acc.conditionMap
  THEN [acc EXCEPT
          !.conditionMap =
             (condType :> WithField(acc.conditionMap[condType], field, val))
               @@ acc.conditionMap]
  ELSE [acc EXCEPT
          !.conditionMap =
             (condType :> WithField(NewCondition(condType), field, val))
               @@ acc.conditionMap,
          !.conditionOrder = Append(acc.conditionOrder, condType)]

\* RouteFeedback that files an extra under the part before the first hyphen.
RouteFeedback_ExtraUnderPrefix(acc, name, val, parts) ==
  IF /\ Len(parts) = 2
     /\ parts[2] \in conditionFields
     /\ parts[1] \notin nonConditionPrefixes
  THEN SetConditionField(acc, parts[1], parts[2], val)
  ELSE [acc EXCEPT !.extras = (parts[1] :> val) @@ acc.extras]

\* The body of the loop once val and parts are known.
RouteFeedback(acc, name, val, parts) ==
  IF /\ Len(parts) = 2
     /\ parts[2] \in conditionFields
     /\ parts[1] \notin nonConditionPrefixes
  THEN SetConditionField(acc, parts[1], parts[2], val)
  ELSE [acc EXCEPT !.extras = (name :> val) @@ acc.extras]

\* One iteration of the loop of parseFeedbackValues over fv.
FeedbackStep(acc, fv) ==
  RouteFeedback(acc, fv.Name, FieldText(fv.FieldValue), SplitN2(fv.Name))

RECURSIVE FeedbackLoop(_, _)
FeedbackLoop(acc, values) ==
  IF values = <<>> THEN acc
  ELSE FeedbackLoop(FeedbackStep(acc, Head(values)), Tail(values))

\* The conditions in conditionOrder, and the extras.
FeedbackResult(acc) ==
  [conditions |-> [i \in 1..Len(acc.conditionOrder) |->
                     acc.conditionMap[acc.conditionOrder[i]]],
   extras |-> acc.extras]

\* parseFeedbackValues(values): the conditions in order of first appearance
\* and the extras map.
parseFeedbackValues(values) ==
  FeedbackResult(FeedbackLoop([conditionMap |-> <<>>, conditionOrder |-> <<>>,
                               extras |-> <<>>], values))

\* ManifestWorkSync{}
ZeroManifestWorkSync ==
  [Name |-> "", Applied |-> FALSE, Available |-> FALSE, LastSyncTime |-> ZeroTime]

\* SyncFlags that matches the condition type without regard to case.
SyncFlags_IgnoreCase(acc, c) ==
  IF c.type \in {"Applied", "applied"}
  THEN [acc EXCEPT !.Applied = (c.status = "True")]
  ELSE IF c.type \in {"Available", "available"}
  THEN [acc EXCEPT !.Available = (c.status = "True")]
  ELSE acc

\* The switch on c.Type.
SyncFlags(acc, c) ==
  IF c.type = "Applied" THEN [acc EXCEPT !.Applied = (c.status = "True")]
  ELSE IF c.type = "Available"
  THEN [acc EXCEPT !.Available = (c.status = "True")]
  ELSE acc

\* Track the most recent transition time.
SyncTime(acc, text, parsed) ==
  IF text # <<>> /\ parsed.ok /\ After(parsed.t, acc.LastSyncTime)
  THEN [acc EXCEPT !.LastSyncTime = parsed.t]
  ELSE acc

\* One iteration of the loop of parseManifestWorkSyncStatus over c.
SyncStep(acc, c) ==
  SyncTime(SyncFlags(acc, c), c.lastTransitionTime,
           ParseTime(c.lastTransitionTime))

RECURSIVE SyncLoop(_, _)
SyncLoop(acc, conds) ==
  IF conds = <<>> THEN acc ELSE SyncLoop(SyncStep(acc, Head(conds)), Tail(conds))

parseManifestWorkSyncStatus(doc) ==
  IF UnmarshalFails(doc, SyncPaths)
  THEN [val |-> ZeroManifestWorkSync, err |-> <<InvalidJSON(doc)>>]
  ELSE [val |-> SyncLoop([ZeroManifestWorkSync EXCEPT !.Name = doc.name],
                         doc.conditions),
        err |-> <<>>]

\* VersionInfo{}
ZeroVersionInfo ==
  [Current |-> <<>>, Desired |-> <<>>, Status |-> <<>>, Image |-> <<>>,
   AvailableUpdates |-> <<>>]

\* CertificateStatus{}
ZeroCertificateStatus ==
  [Ready |-> <<>>, NotAfter |-> ZeroTime, RenewalTime |-> ZeroTime,
   DNSNames |-> <<>>]

\* extras[name] when present, otherwise the field's value so far.
ExtraOr(extras, name, old) == IF name \in DOMAIN extras THEN extras[name] ELSE old

\* VersionFrom that takes the available updates as one version, unsplit.
VersionFrom_NoSplit(v, extras) ==
  [Current |-> ExtraOr(extras, N_VersionCurrent, v.Current),
   Desired |-> ExtraOr(extras, N_VersionDesired, v.Desired),
   Status  |-> ExtraOr(extras, N_VersionStatus, v.Status),
   Image   |-> ExtraOr(extras, N_VersionImage, v.Image),
   AvailableUpdates |->
     IF /\ N_VersionAvailableUpdates \in DOMAIN extras
        /\ extras[N_VersionAvailableUpdates] # <<>>
     THEN <<extras[N_VersionAvailableUpdates]>>
     ELSE v.AvailableUpdates]

\* The version fields after the extras of one HostedCluster entry.
VersionFrom(v, extras) ==
  [Current |-> ExtraOr(extras, N_VersionCurrent, v.Current),
   Desired |-> ExtraOr(extras, N_VersionDesired, v.Desired),
   Status  |-> ExtraOr(extras, N_VersionStatus, v.Status),
   Image   |-> ExtraOr(extras, N_VersionImage, v.Image),
   AvailableUpdates |->
     IF /\ N_VersionAvailableUpdates \in DOMAIN extras
        /\ extras[N_VersionAvailableUpdates] # <<>>
     THEN SplitComma(extras[N_VersionAvailableUpdates])
     ELSE v.AvailableUpdates]

\* HostedClusterStep that starts the result afresh at a HostedCluster entry,
\* the management cluster included.
HostedClusterStep_StartsAfresh(acc, fb) ==
  [acc EXCEPT !.Conditions = fb.conditions,
              !.Version = VersionFrom(acc.Version, fb.extras),
              !.MgmtCluster = ""]

\* HostedClusterStep that adds the conditions of the entry to those of the
\* entries before.
HostedClusterStep_MergesConditions(acc, fb) ==
  [acc EXCEPT !.Conditions = @ \o fb.conditions,
              !.Version = VersionFrom(acc.Version, fb.extras)]

\* case "HostedCluster", fb being the flattened feedback of the entry.
HostedClusterStep(acc, fb) ==
  [acc EXCEPT !.Conditions = fb.conditions,
              !.Version = VersionFrom(acc.Version, fb.extras)]

\* MainStep that reads the readiness of a Certificate entry from its feedback.
MainStep_CertificateFromFeedback(acc, manifest) ==
  IF manifest.Kind = "HostedCluster"
  THEN HostedClusterStep(acc, parseFeedbackValues(manifest.Values))
  ELSE IF manifest.Kind = "Certificate"
  THEN [acc EXCEPT
          !.Certificate =
             <<[ZeroCertificateStatus EXCEPT
                  !.Ready =
                     IF \E i \in 1..Len(manifest.Values) :
                          manifest.Values[i].Name = N_ReadyStatus
                     THEN <<\E i \in 1..Len(manifest.Values) :
                              /\ manifest.Values[i].Name = N_ReadyStatus
                              /\ manifest.Values[i].FieldValue.String = S_True>>
                     ELSE <<>>]>>]
  ELSE acc

\* One iteration of the loop of parseMainManifestWork over manifest.
MainStep(acc, manifest) ==
  IF manifest.Kind = "HostedCluster"
  THEN HostedClusterStep(acc, parseFeedbackValues(manifest.Values))
  ELSE IF manifest.Kind = "Certificate"
  THEN [acc EXCEPT !.Certificate = <<ZeroCertificateStatus>>]
  ELSE acc

RECURSIVE MainLoop(_, _)
MainLoop(acc, manifests) ==
  IF manifests = <<>> THEN acc
  ELSE MainLoop(MainStep(acc, Head(manifests)), Tail(manifests))

\* mainMWResult{}
ZeroMainMWResult ==
  [Conditions |-> <<>>, Version |-> ZeroVersionInfo, MgmtCluster |-> "",
   Certificate |-> <<>>]

\* mw.Metadata.Labels[MgmtLabel]
MgmtClusterOf(labels) ==
  IF MgmtLabel \in DOMAIN labels THEN labels[MgmtLabel] ELSE ""

parseMainManifestWork(doc) ==
  IF UnmarshalFails(doc, MainPaths)
  THEN [val |-> <<>>, err |-> <<InvalidJSON(doc)>>]
  ELSE [val |-> <<MainLoop([ZeroMainMWResult EXCEPT
                              !.MgmtCluster = MgmtClusterOf(doc.labels)],
                           doc.manifests)>>,
        err |-> <<>>]

\* np.Replicas from the result of strconv.Atoi.
ReplicasFrom(parsed) == IF parsed.ok THEN parsed.n ELSE 0

\* np.Replicas from the extras.
ReplicasOf(extras) ==
  IF N_Replicas \in DOMAIN extras THEN ReplicasFrom(Atoi(extras[N_Replicas]))
  ELSE 0

\* The NodePoolStatus of an entry with the given name and flattened feedback.
NodePoolFrom(name, fb) ==
  [Name |-> name,
   Replicas |-> ReplicasOf(fb.extras),
   Version |-> ExtraOr(fb.extras, N_Version, <<>>),
   Conditions |-> fb.conditions]

\* The NodePoolStatus of one manifest entry of kind NodePool.
NodePoolOf(manifest) ==
  NodePoolFrom(manifest.Name, parseFeedbackValues(manifest.Values))

\* NodePoolLoop that drops a pool whose Replicas value is no integer.
RECURSIVE NodePoolLoop_DropUnparsable(_)
NodePoolLoop_DropUnparsable(manifests) ==
  IF manifests = <<>> THEN <<>>
  ELSE IF Head(manifests).Kind # "NodePool"
  THEN NodePoolLoop_DropUnparsable(Tail(manifests))
  ELSE IF /\ N_Replicas \in DOMAIN parseFeedbackValues(Head(manifests).Values).extras
          /\ ~Atoi(parseFeedbackValues(Head(manifests).Values).extras[N_Replicas]).ok
  THEN NodePoolLoop_DropUnparsable(Tail(manifests))
  ELSE <<NodePoolOf(Head(manifests))>>
         \o NodePoolLoop_DropUnparsable(Tail(manifests))

RECURSIVE NodePoolLoop(_)
NodePoolLoop(manifests) ==
  IF manifests = <<>> THEN <<>>
  ELSE IF Head(manifests).Kind # "NodePool" THEN NodePoolLoop(Tail(manifests))
  ELSE <<NodePoolOf(Head(manifests))>> \o NodePoolLoop(Tail(manifests))

parseManifestWorkNodePools(doc) ==
  IF UnmarshalFails(doc, NodePoolPaths)
  THEN [val |-> <<>>, err |-> <<InvalidJSON(doc)>>]
  ELSE [val |-> NodePoolLoop(doc.manifests), err |-> <<>>]

\* ReadyLoop that ends with not-ready when no condition has type "Ready".
RECURSIVE ReadyLoop_UnmatchedIsFalse(_, _)
ReadyLoop_UnmatchedIsFalse(ready, conds) ==
  IF conds = <<>> THEN (IF ready = <<>> THEN <<FALSE>> ELSE ready)
  ELSE ReadyLoop_UnmatchedIsFalse(IF Head(conds).type = "Ready"
                                  THEN <<Head(conds).status = "True">>
                                  ELSE ready,
                                  Tail(conds))

\* The loop of parseCertificate over the conditions: the last condition of
\* type "Ready" decides.
RECURSIVE ReadyLoop(_, _)
ReadyLoop(ready, conds) ==
  IF conds = <<>> THEN ready
  ELSE ReadyLoop(IF Head(conds).type = "Ready"
                 THEN <<Head(conds).status = "True">> ELSE ready,
                 Tail(conds))

\* A timestamp field of parseCertificate: zero when empty or unparsable.
CertTimeOf(s, parsed) == IF s # <<>> /\ parsed.ok THEN parsed.t ELSE ZeroTime

CertTime(s) == CertTimeOf(s, ParseTime(s))

\* parseCertificate that returns the error of time.Parse.
parseCertificate_TimeErrorIsFatal(doc) ==
  IF UnmarshalFails(doc, CertPaths)
  THEN [val |-> <<>>, err |-> <<InvalidJSON(doc)>>]
  ELSE IF \/ doc.notAfter # <<>> /\ ~ParseTime(doc.notAfter).ok
          \/ doc.renewalTime # <<>> /\ ~ParseTime(doc.renewalTime).ok
  THEN [val |-> <<>>, err |-> <<InvalidJSON(doc)>>]
  ELSE [val |-> <<[Ready |-> ReadyLoop(<<>>, doc.conditions),
                   NotAfter |-> CertTime(doc.notAfter),
                   RenewalTime |-> CertTime(doc.renewalTime),
                   DNSNames |-> doc.dnsNames]>>,
        err |-> <<>>]

parseCertificate(doc) ==
  IF UnmarshalFails(doc, CertPaths)
  THEN [val |-> <<>>, err |-> <<InvalidJSON(doc)>>]
  ELSE [val |-> <<[Ready |-> ReadyLoop(<<>>, doc.conditions),
                   NotAfter |-> CertTime(doc.notAfter),
                   RenewalTime |-> CertTime(doc.renewalTime),
                   DNSNames |-> doc.dnsNames]>>,
        err |-> <<>>]

----------------------------------------------------------------------------
(* The Aggregator.  A stage returns [status, err]: the snapshot so far and *)
(* a nil error, or nil and the error parseLiveResources returns.           *)

MWPrefix ==
  <<"m", "a", "n", "i", "f", "e", "s", "t", "_", "w", "o", "r", "k", "-">>

CertPrefix == <<"c", "e", "r", "t", "i", "f", "i", "c", "a", "t", "e", "-">>

\* HCPStatus{}
ZeroHCPStatus ==
  [ClusterID |-> "", ClusterName |-> "", ClusterState |-> "",
   ManagementCluster |-> "", Version |-> ZeroVersionInfo,
   APIServerCertificate |-> <<>>, IngressCertificate |-> <<>>,
   ManifestWorks |-> <<>>, HostedClusterConditions |-> <<>>,
   NodePools |-> <<>>]

\* The stage goes on with status.
Continue(status) == [status |-> <<status>>, err |-> <<>>]

\* return nil, fmt.Errorf(format, args..., err)
ReturnError(format, args, err) ==
  [status |-> <<>>, err |-> <<Errorf(format, args, err)>>]

\* IsMWKey with the prefix "manifest_work", without the hyphen.
IsMWKey_NoHyphen(key) == HasPrefix(key, SubSeq(MWPrefix, 1, Len(MWPrefix) - 1))

IsMWKey(key) == HasPrefix(key, MWPrefix)

\* IsCertKey testing the manifest_work prefix again.
IsCertKey_WrongPrefix(key) == HasPrefix(key, MWPrefix)

IsCertKey(key) == HasPrefix(key, CertPrefix)

\* First pass: the manifest_work keys in the order the map range yields
\* them, then sorted.
ManifestWorkKeys(order) == SortStrings(SelectSeq(order, IsMWKey))

\* Sync status of all ManifestWorks, in the order of keys; SyncAppend is
\* the loop body once the document under the first key is parsed.
RECURSIVE SyncStage(_, _, _)
RECURSIVE SyncAppend(_, _, _, _)
SyncAppend(res, keys, status, mws) ==
  IF mws.err # <<>>
  THEN ReturnError("failed to parse ManifestWork sync status for %s: %w",
                   <<Head(keys)>>, mws.err)
  ELSE SyncStage(res, Tail(keys),
                 [status EXCEPT !.ManifestWorks = Append(@, mws.val)])

SyncStage(res, keys, status) ==
  IF keys = <<>> THEN Continue(status)
  ELSE SyncAppend(res, keys, status,
                  parseManifestWorkSyncStatus(Documents[res[Head(keys)]]))

\* The assignments from the result of parseMainManifestWork.
MainAssign(status, result) ==
  IF result.err # <<>>
  THEN ReturnError("failed to parse main ManifestWork: %w", <<>>, result.err)
  ELSE Continue([status EXCEPT
                   !.HostedClusterConditions = result.val[1].Conditions,
                   !.Version = result.val[1].Version,
                   !.ManagementCluster = result.val[1].MgmtCluster,
                   !.APIServerCertificate =
                      IF result.val[1].Certificate # <<>>
                      THEN result.val[1].Certificate ELSE @])

\* MainStage that reports a missing main document as an error.
MainStage_MissingIsError(res, mainMWKey, status) ==
  IF mainMWKey \notin DOMAIN res
  THEN ReturnError("failed to parse main ManifestWork: %w", <<>>, <<>>)
  ELSE MainAssign(status, parseMainManifestWork(Documents[res[mainMWKey]]))

\* MainStage that takes another manifest_work document for the main one when
\* the main key is missing.
MainStage_Fallback(res, mainMWKey, status) ==
  LET others == {k \in DOMAIN res : HasPrefix(k, MWPrefix)}
      key    == IF mainMWKey \in DOMAIN res \/ others = {} THEN mainMWKey
                ELSE CHOOSE k \in others : TRUE
  IN  IF key \notin DOMAIN res THEN Continue(status)
      ELSE MainAssign(status, parseMainManifestWork(Documents[res[key]]))

\* The main ManifestWork, when the map has its key.
MainStage(res, mainMWKey, status) ==
  IF mainMWKey \notin DOMAIN res THEN Continue(status)
  ELSE MainAssign(status, parseMainManifestWork(Documents[res[mainMWKey]]))

\* NodePoolStage that assigns the pools of each document instead of
\* appending them.
RECURSIVE NodePoolStage_Overwrite(_, _, _)
NodePoolStage_Overwrite(res, keys, status) ==
  IF keys = <<>> THEN Continue(status)
  ELSE LET nodePools == parseManifestWorkNodePools(Documents[res[Head(keys)]])
       IN  IF nodePools.err # <<>>
           THEN ReturnError("failed to parse NodePool from %s: %w",
                            <<Head(keys)>>, nodePools.err)
           ELSE NodePoolStage_Overwrite(res, Tail(keys),
                                        [status EXCEPT
                                           !.NodePools = nodePools.val])

\* NodePools of all ManifestWorks, in the order of keys; NodePoolAppend is
\* the loop body once the document under the first key is parsed.
RECURSIVE NodePoolStage(_, _, _)
RECURSIVE NodePoolAppend(_, _, _, _)
NodePoolAppend(res, keys, status, nodePools) ==
  IF nodePools.err # <<>>
  THEN ReturnError("failed to parse NodePool from %s: %w",
                   <<Head(keys)>>, nodePools.err)
  ELSE NodePoolStage(res, Tail(keys),
                     [status EXCEPT !.NodePools = @ \o nodePools.val])

NodePoolStage(res, keys, status) ==
  IF keys = <<>> THEN Continue(status)
  ELSE NodePoolAppend(res, keys, status,
                      parseManifestWorkNodePools(Documents[res[Head(keys)]]))

\* The certificate keys one of which the map range of the last loop yields
\* first: <<key>>, or <<>> when no key has the prefix.
FirstCertKeys(res) ==
  IF \E k \in DOMAIN res : IsCertKey(k)
  THEN {<<k>> : k \in {c \in DOMAIN res : IsCertKey(c)}}
  ELSE {<<>>}

\* The assignment from the result of parseCertificate.
CertAssign(status, cert) ==
  IF cert.err # <<>>
  THEN ReturnError("failed to parse ingress certificate: %w", <<>>, cert.err)
  ELSE Continue([status EXCEPT !.IngressCertificate = cert.val])

\* CertStage that leaves the ingress certificate out when its document does
\* not decode, and returns the snapshot so far.
CertStage_SwallowError(res, first, status) ==
  IF first = <<>> THEN Continue(status)
  ELSE IF parseCertificate(Documents[res[first[1]]]).err # <<>>
  THEN Continue(status)
  ELSE CertAssign(status, parseCertificate(Documents[res[first[1]]]))

\* The ingress certificate: the loop parses the first certificate key the
\* map range yields and breaks.
CertStage(res, first, status) ==
  IF first = <<>> THEN Continue(status)
  ELSE CertAssign(status, parseCertificate(Documents[res[first[1]]]))

\* The stages run in turn until one returns an error.
MainAfter(res, mainMWKey, before) ==
  IF before.err # <<>> THEN before
  ELSE MainStage(res, mainMWKey, before.status[1])

NodePoolsAfter(res, keys, before) ==
  IF before.err # <<>> THEN before
  ELSE NodePoolStage(res, keys, before.status[1])

CertAfter(res, first, before) ==
  IF before.err # <<>> THEN before
  ELSE CertStage(res, first, before.status[1])

\* StagesOver with the worker-pool stage before the sync stage.
StagesOver_NodePoolsFirst(res, manifestWorkKeys, mainMWKey, first) ==
  LET pools == NodePoolStage(res, manifestWorkKeys, ZeroHCPStatus)
  IN  IF pools.err # <<>> THEN pools
      ELSE CertAfter(res, first,
             MainAfter(res, mainMWKey,
               SyncStage(res, manifestWorkKeys, pools.status[1])))

\* parseLiveResources from the sorted manifestWorkKeys and mainMWKey on.
StagesOver(res, manifestWorkKeys, mainMWKey, first) ==
  CertAfter(res, first,
    NodePoolsAfter(res, manifestWorkKeys,
      MainAfter(res, mainMWKey,
        SyncStage(res, manifestWorkKeys, ZeroHCPStatus))))

\* parseLiveResources that rejects the empty mapping, as its caller does.
parseLiveResources_EmptyIsError(res, cid, order1, first) ==
  IF DOMAIN res = {}
  THEN ReturnError("no live resources found", <<>>, <<>>)
  ELSE StagesOver(res, ManifestWorkKeys(order1), MWPrefix \o cid, first)

\* parseLiveResources(resources, clusterID) when the first map range yields
\* the keys in the order order1 and the last one yields a certificate key
\* first: [status, err].
parseLiveResources(res, cid, order1, first) ==
  StagesOver(res, ManifestWorkKeys(order1), MWPrefix \o cid, first)

----------------------------------------------------------------------------
(* The state machine: an input mapping and cluster ID, calls of            *)
(* parseLiveResources on them, and changes of one entry of the mapping     *)
(* between two calls.  last and prev record the latest two calls.          *)

KeyMW_a == MWPrefix \o <<"a">>
KeyMW_a_w == MWPrefix \o <<"a", "-", "w">>
KeyMW_b == MWPrefix \o <<"b">>
KeyCert_a == CertPrefix \o <<"a">>
KeyCert_b == CertPrefix \o <<"b">>
KeyNoHyphen == SubSeq(MWPrefix, 1, Len(MWPrefix) - 1)

\* The manifest_work keys of the model in ascending byte order, and its
\* certificate keys, written out.
MWKeysAscending == <<KeyMW_a, KeyMW_a_w, KeyMW_b>>

CertKeySet == {KeyCert_a, KeyCert_b}

MWKeySet == {MWKeysAscending[i] : i \in 1..Len(MWKeysAscending)}

Keys == {KeyMW_a, KeyMW_a_w, KeyMW_b, KeyCert_a, KeyCert_b, KeyNoHyphen}

ClusterIDs == {<<"a">>, <<"b">>}

\* The documents tried under a key.
DocsFor(key) ==
  IF key \in MWKeySet
  THEN {"DocMain", "DocWorkers", "DocSyntax", "DocBadLabels", "DocBadManifests"}
  ELSE IF key \in CertKeySet
  THEN {"DocCertReady", "DocCertNotReady", "DocSyntax"}
  ELSE {"DocSyntax", "DocMain"}

Mappings ==
  UNION {{m \in [S -> DOMAIN Documents] : \A k \in S : m[k] \in DocsFor(k)} :
           S \in {T \in SUBSET Keys : Cardinality(T) <= MaxEntries}}

\* The orders in which a map range can yield the keys of S.
Orders(S) ==
  {o \in [1..Cardinality(S) -> S] : \A i, j \in DOMAIN o : o[i] = o[j] => i = j}

\* No command of the node-resize workflow runs.
NoWorkflow ==
  /\ command = ""
  /\ pc = ""
  /\ context = ""
  /\ calls = <<>>
  /\ dialogResponse = 0

Init ==
  /\ resources \in Mappings
  /\ clusterID \in ClusterIDs
  /\ last = <<>>
  /\ prev = <<>>
  /\ input = <<>>
  /\ output = <<>>
  /\ NoWorkflow

\* What run returns after parseLiveResources returned out.
RunResult(out) ==
  [err |-> IF out.err # <<>>
           THEN <<Errorf("failed to parse live resources: %w", <<>>, out.err)>>
           ELSE <<>>]

\* What run returns when len(resources) == 0.
NoLiveResources(cid) ==
  [err |-> <<Errorf("no live resources found for cluster %s", <<cid>>, <<>>)>>]

\* run after parseLiveResources returned out: output is what run returns.
Returned(first, out) ==
  /\ last' = <<[resources |-> resources, certKey |-> first, out |-> out]>>
  /\ output' = <<RunResult(out)>>

\* run on a mapping that is not empty: one call of
\* parseLiveResources(resources, clusterID).
Call ==
  /\ DOMAIN resources # {}
  /\ \E order1 \in Orders(DOMAIN resources) :
       \E first \in FirstCertKeys(resources) :
         Returned(first,
                  parseLiveResources(resources, clusterID, order1, first))
  /\ prev' = last
  /\ UNCHANGED <<workflow, resources, clusterID, input>>

\* run on the empty mapping: it returns an error and makes no call of
\* parseLiveResources.
CallEmpty ==
  /\ DOMAIN resources = {}
  /\ last' = <<>>
  /\ prev' = <<>>
  /\ output' = <<NoLiveResources(clusterID)>>
  /\ UNCHANGED <<workflow, resources, clusterID, input>>

\* No entry was changed since the latest call.
Unchanged == IF last = <<>> THEN TRUE ELSE last[1].resources = resources

\* The live endpoint returns a document under key (new, or in place of the
\* one before).
PutDocument ==
  \E key \in Keys : \E doc \in DocsFor(key) :
    /\ Unchanged
    /\ key \in DOMAIN resources => resources[key] # doc
    /\ Cardinality(DOMAIN resources \cup {key}) <= MaxEntries
    /\ resources' = (key :> doc) @@ resources
    /\ prev' = <<>>
    /\ UNCHANGED <<workflow, clusterID, last, input, output>>

\* The live endpoint no longer returns the document under key.
DeleteDocument ==
  \E key \in DOMAIN resources :
    /\ Unchanged
    /\ resources' = [k \in DOMAIN resources \ {key} |-> resources[k]]
    /\ prev' = <<>>
    /\ UNCHANGED <<workflow, clusterID, last, input, output>>

Next == Call \/ CallEmpty \/ PutDocument \/ DeleteDocument

Spec == Init /\ [][Next]_vars

----------------------------------------------------------------------------
(* parseLiveResources on its own: one call on a mapping, the empty one     *)
(* included, as the tests of the package call it.                          *)

InitAggregate ==
  /\ resources = <<>>
  /\ clusterID = <<>>
  /\ last = <<>>
  /\ prev = <<>>
  /\ NoWorkflow
  /\ input \in [resources : Mappings, clusterID : ClusterIDs]
  /\ output = <<>>

CallAggregate ==
  /\ output = <<>>
  /\ \E order1 \in Orders(DOMAIN input.resources) :
       \E first \in FirstCertKeys(input.resources) :
         output' = <<parseLiveResources(input.resources, input.clusterID,
                                        order1, first)>>
  /\ UNCHANGED <<workflow, resources, clusterID, last, prev, input>>

NextAggregate == CallAggregate

SpecAggregate == InitAggregate /\ [][NextAggregate]_vars

----------------------------------------------------------------------------
(* The Feedback Flattener on its own: one call of parseFeedbackValues on a *)
(* sequence of feedback values.                                            *)

\* Largest number of feedback values of one manifest entry.
MaxValues == 3

\* The feedback values an entry is made of: condition fields (one of them
\* twice, with different payloads), Version- names, plain extras (one name
\* twice), a condition type with a hyphen in it, and payloads of type
\* String, Integer and neither.
FeedbackValues ==
  { StringValue(N_AvailableStatus, S_True),
    StringValue(N_AvailableStatus, S_False),
    TypedValue(N_AvailableReason, "Integer", S_True, 12),
    IntegerValue(N_AvailableMessage, 0 - 3),
    StringValue(N_ReadyStatus, S_True),
    StringValue(N_VersionStatus, S_True),
    StringValue(N_VersionCurrent, S_V41),
    IntegerValue(N_Replicas, 3),
    StringValue(N_Replicas, S_True),
    TypedValue(N_EtcdReadyStatus, "Boolean", S_False, 7) }

FeedbackInputs == UNION {[1..n -> FeedbackValues] : n \in 0..MaxValues}

\* No call of parseLiveResources is under way.
Idle ==
  /\ resources = <<>>
  /\ clusterID = <<>>
  /\ last = <<>>
  /\ prev = <<>>

InitFeedback ==
  /\ Idle
  /\ NoWorkflow
  /\ input \in FeedbackInputs
  /\ output = <<>>

\* conds, extras := parseFeedbackValues(input)
CallFeedback ==
  /\ output = <<>>
  /\ output' = <<parseFeedbackValues(input)>>
  /\ UNCHANGED <<workflow, resources, clusterID, last, prev, input>>

NextFeedback == CallFeedback

SpecFeedback == InitFeedback /\ [][NextFeedback]_vars

----------------------------------------------------------------------------
(* Properties of parseLiveResources.                                       *)

\* The document a run had under key k.
DocAt(run, k) == Documents[run.resources[k]]

Succeeded(run) == run.out.err = <<>> /\ run.out.status # <<>>

\* The key of the main document.
MainKey == MWPrefix \o clusterID

\* The document under key k fails the decoding of a parser that runs over it.
FailsDecoding(run, k) ==
  IF k \in MWKeySet
  THEN \/ UnmarshalFails(DocAt(run, k), SyncPaths)
       \/ UnmarshalFails(DocAt(run, k), NodePoolPaths)
       \/ k = MainKey /\ UnmarshalFails(DocAt(run, k), MainPaths)
  ELSE k \in CertKeySet /\ UnmarshalFails(DocAt(run, k), CertPaths)

\* C1: two calls on the same input mapping and cluster ID return the same
\* snapshot or the same error.
C1_Idempotent ==
  (last # <<>> /\ prev # <<>> /\ prev[1].resources = last[1].resources)
    => last[1].out = prev[1].out

\* C2 as claimed: if any document under a manifest_work- or certificate- key
\* fails structural decoding, the call returns an error and no snapshot.
C2_AnyMalformedAborts ==
  last # <<>> =>
    ((\E k \in DOMAIN last[1].resources : FailsDecoding(last[1], k))
       => last[1].out.err # <<>> /\ last[1].out.status = <<>>)

\* C2 as amended: if a document under a manifest_work- key, or the one
\* certificate document the last loop selects, fails structural decoding,
\* the call returns an error and no snapshot; and every call returns
\* either an error or a snapshot, never both and never neither.
C2_DecodedMalformedAborts ==
  last # <<>> =>
    /\ ((\/ \E k \in DOMAIN last[1].resources \cap MWKeySet :
              FailsDecoding(last[1], k)
         \/ IF last[1].certKey = <<>> THEN FALSE
            ELSE FailsDecoding(last[1], last[1].certKey[1]))
          => last[1].out.err # <<>> /\ last[1].out.status = <<>>)
    /\ (last[1].out.err = <<>>) # (last[1].out.status = <<>>)

\* A call whose selected certificate document is malformed, next to a
\* decodable one, has returned an error.
C2_Witness ==
  /\ last # <<>>
  /\ CertKeySet \subseteq DOMAIN last[1].resources
  /\ last[1].certKey # <<>>
  /\ IF last[1].certKey = <<>> THEN FALSE
     ELSE FailsDecoding(last[1], last[1].certKey[1])
  /\ \E k \in CertKeySet : ~FailsDecoding(last[1], k)
  /\ last[1].out.err # <<>>

\* C3: every error names the key of the document whose parse failed.
C3_ErrorNamesFailedKey ==
  last # <<>> =>
    (last[1].out.err # <<>> =>
       \E k \in DOMAIN last[1].resources :
         /\ last[1].out.err[1].args = <<k>>
         /\ FailsDecoding(last[1], k))

\* The sync summary of the document under k, when the run had one.
SyncAt(run, k) ==
  IF k \in DOMAIN run.resources
  THEN <<parseManifestWorkSyncStatus(DocAt(run, k)).val>> ELSE <<>>

\* C4: on success ManifestWorks holds one summary per manifest_work key,
\* the i-th being the sync parse of the document under the i-th key in
\* ascending order.
C4_SyncSummariesInKeyOrder ==
  (last # <<>> /\ Succeeded(last[1])) =>
    /\ Len(last[1].out.status[1].ManifestWorks)
         = Cardinality(DOMAIN last[1].resources \cap MWKeySet)
    /\ last[1].out.status[1].ManifestWorks
         = SyncAt(last[1], MWKeysAscending[1])
             \o SyncAt(last[1], MWKeysAscending[2])
             \o SyncAt(last[1], MWKeysAscending[3])

\* A successful call over two manifest_work documents with different
\* summaries.
C4_Witness ==
  /\ last # <<>>
  /\ Succeeded(last[1])
  /\ Len(last[1].out.status[1].ManifestWorks) >= 2
  /\ last[1].out.status[1].ManifestWorks[1]
       # last[1].out.status[1].ManifestWorks[2]

\* C5: without a document under the main key no error comes from the main
\* parse, and on success the four control-plane fields are zero.
C5_MissingMainLeavesZero ==
  (last # <<>> /\ MainKey \notin DOMAIN last[1].resources) =>
    IF Succeeded(last[1])
    THEN /\ last[1].out.status[1].HostedClusterConditions = <<>>
         /\ last[1].out.status[1].Version = ZeroVersionInfo
         /\ last[1].out.status[1].ManagementCluster = ""
         /\ last[1].out.status[1].APIServerCertificate = <<>>
    ELSE last[1].out.err[1].format # "failed to parse main ManifestWork: %w"

\* A successful call without main document over another manifest_work
\* document that has HostedCluster and Certificate entries.
C5_Witness ==
  /\ last # <<>>
  /\ MainKey \notin DOMAIN last[1].resources
  /\ Succeeded(last[1])
  /\ \E k \in DOMAIN last[1].resources \cap MWKeySet :
       /\ \E i \in DOMAIN DocAt(last[1], k).manifests :
            DocAt(last[1], k).manifests[i].Kind = "HostedCluster"
       /\ \E i \in DOMAIN DocAt(last[1], k).manifests :
            DocAt(last[1], k).manifests[i].Kind = "Certificate"

\* The two runs had the same document, or none, under key k.
SameAt(k) ==
  /\ (k \in DOMAIN prev[1].resources) = (k \in DOMAIN last[1].resources)
  /\ k \in DOMAIN prev[1].resources
       => prev[1].resources[k] = last[1].resources[k]

\* The four fields that come from the main document.
ControlPlaneFields(status) ==
  <<status.HostedClusterConditions, status.Version, status.ManagementCluster,
    status.APIServerCertificate>>

\* C6: two successful calls whose inputs have the same main document agree
\* on the four control-plane fields, whatever the other documents are.
C6_ControlPlaneFromMainOnly ==
  (/\ last # <<>> /\ prev # <<>>
   /\ Succeeded(last[1]) /\ Succeeded(prev[1])
   /\ SameAt(MainKey))
    => ControlPlaneFields(last[1].out.status[1])
         = ControlPlaneFields(prev[1].out.status[1])

\* Two successful calls with a main document that has a HostedCluster
\* entry, between which another document was changed.
C6_Witness ==
  /\ last # <<>> /\ prev # <<>>
  /\ Succeeded(last[1]) /\ Succeeded(prev[1])
  /\ MainKey \in DOMAIN last[1].resources
  /\ SameAt(MainKey)
  /\ last[1].out.status[1].HostedClusterConditions # <<>>
  /\ \E k \in DOMAIN last[1].resources \cap DOMAIN prev[1].resources :
       k # MainKey /\ last[1].resources[k] # prev[1].resources[k]

IsNodePool(manifest) == manifest.Kind = "NodePool"

\* One worker pool per NodePool entry of the document under k, in manifest
\* order.
PoolsAt(run, k) ==
  IF k \in DOMAIN run.resources
  THEN LET entries == SelectSeq(DocAt(run, k).manifests, IsNodePool)
       IN  [i \in 1..Len(entries) |-> NodePoolOf(entries[i])]
  ELSE <<>>

\* C7: on success NodePools is the concatenation, over the manifest_work
\* keys in ascending order, of the worker pools of the NodePool entries.
C7_NodePoolsConcatenated ==
  (last # <<>> /\ Succeeded(last[1])) =>
    last[1].out.status[1].NodePools
      = PoolsAt(last[1], MWKeysAscending[1])
          \o PoolsAt(last[1], MWKeysAscending[2])
          \o PoolsAt(last[1], MWKeysAscending[3])

\* A successful call over two manifest_work documents that both have
\* NodePool entries, one of them next to entries of other kinds.
C7_Witness ==
  /\ last # <<>>
  /\ Succeeded(last[1])
  /\ \E j, k \in DOMAIN last[1].resources \cap MWKeySet :
       /\ j # k
       /\ PoolsAt(last[1], j) # <<>>
       /\ PoolsAt(last[1], k) # <<>>
       /\ Len(PoolsAt(last[1], k)) < Len(DocAt(last[1], k).manifests)
  /\ Len(last[1].out.status[1].NodePools) >= 3

\* C8: on success IngressCertificate is nil exactly when the input has no
\* certificate key, and otherwise is the parse of one certificate document.
C8_IngressFromOneCertificate ==
  (last # <<>> /\ Succeeded(last[1])) =>
    /\ (last[1].out.status[1].IngressCertificate = <<>>)
         = (DOMAIN last[1].resources \cap CertKeySet = {})
    /\ last[1].out.status[1].IngressCertificate # <<>> =>
         \E k \in DOMAIN last[1].resources \cap CertKeySet :
           last[1].out.status[1].IngressCertificate
             = parseCertificate(DocAt(last[1], k)).val

\* A successful call over two certificate documents with different
\* contents.
C8_Witness ==
  /\ last # <<>>
  /\ Succeeded(last[1])
  /\ CertKeySet \subseteq DOMAIN last[1].resources
  /\ parseCertificate(DocAt(last[1], KeyCert_a)).val
       # parseCertificate(DocAt(last[1], KeyCert_b)).val
  /\ last[1].out.status[1].IngressCertificate # <<>>

\* C9: for the empty mapping the call returns no error and a snapshot with
\* empty sequences, empty version fields and no certificates.
C9_EmptyMapping ==
  (output # <<>> /\ DOMAIN input.resources = {}) =>
    /\ output[1].err = <<>>
    /\ output[1].status # <<>>
    /\ Len(output[1].status[1].ManifestWorks) = 0
    /\ Len(output[1].status[1].HostedClusterConditions) = 0
    /\ Len(output[1].status[1].NodePools) = 0
    /\ output[1].status[1].Version.Current = <<>>
    /\ output[1].status[1].Version.Desired = <<>>
    /\ output[1].status[1].Version.Status = <<>>
    /\ output[1].status[1].Version.Image = <<>>
    /\ Len(output[1].status[1].Version.AvailableUpdates) = 0
    /\ output[1].status[1].APIServerCertificate = <<>>
    /\ output[1].status[1].IngressCertificate = <<>>

\* A call on the empty mapping has returned.
C9_Witness ==
  /\ output # <<>>
  /\ DOMAIN input.resources = {}

\* Every result the call can return on an input, over the orders in which
\* the map ranges can yield the keys.
Outcomes(res, cid) ==
  {parseLiveResources(res, cid, order1, first) :
     order1 \in Orders(DOMAIN res), first \in FirstCertKeys(res)}

\* C10: when the inputs of two calls differ only in entries whose key has
\* neither prefix, each call's result is one the other input can give.
C10_OtherKeysIgnored ==
  (/\ last # <<>> /\ prev # <<>>
   /\ \A k \in MWKeySet \cup CertKeySet : SameAt(k))
    => /\ last[1].out \in Outcomes(prev[1].resources, clusterID)
       /\ prev[1].out \in Outcomes(last[1].resources, clusterID)

\* Two calls, the later one successful, between which a malformed document
\* was put under the key "manifest_work".
C10_Witness ==
  /\ last # <<>> /\ prev # <<>>
  /\ \A k \in MWKeySet \cup CertKeySet : SameAt(k)
  /\ ~SameAt(KeyNoHyphen)
  /\ KeyNoHyphen \in DOMAIN last[1].resources
  /\ ~Documents[last[1].resources[KeyNoHyphen]].syntaxOK
  /\ DOMAIN last[1].resources \cap MWKeySet # {}
  /\ Succeeded(last[1])

----------------------------------------------------------------------------
(* The aggregate-sync parser on its own: one call of                       *)
(* parseManifestWorkSyncStatus on a document.                              *)

\* Largest number of conditions of a document.
MaxConditions == 2

\* The conditions a document is made of: the two types the parser knows,
\* one of them in lower case, another type; both statuses; no timestamp, a
\* text that is no timestamp, two timestamps, the earlier of them in another
\* zone as well, and a timestamp before the zero time.
SyncConditions ==
  [ type : {"Applied", "Available", "applied", "Degraded"},
    status : {"True", "False"},
    lastTransitionTime :
      {<<>>, TS_NotATime, TS_1000, TS_1005, TS_1200East, TS_YearZero} ]

\* A document that decodes, with these conditions.
SyncDocument(conds) ==
  [ syntaxOK |-> TRUE, badPaths |-> {},
    name |-> "testid", labels |-> NoLabels, conditions |-> conds,
    manifests |-> <<>>,
    dnsNames |-> <<>>, notAfter |-> <<>>, renewalTime |-> <<>> ]

SyncInputs ==
  {SyncDocument(conds) :
     conds \in UNION {[1..n -> SyncConditions] : n \in 0..MaxConditions}}
    \cup {Documents.DocSyntax}

InitSync ==
  /\ Idle
  /\ NoWorkflow
  /\ input \in SyncInputs
  /\ output = <<>>

\* mws, err := parseManifestWorkSyncStatus(input)
CallSync ==
  /\ output = <<>>
  /\ output' = <<parseManifestWorkSyncStatus(input)>>
  /\ UNCHANGED <<workflow, resources, clusterID, last, prev, input>>

NextSync == CallSync

SpecSync == InitSync /\ [][NextSync]_vars

----------------------------------------------------------------------------
(* The control-plane parser on its own: one call of parseMainManifestWork  *)
(* on a document.                                                          *)

\* Largest number of manifest entries of a document.
MaxManifests == 3

S_V42 == <<"4", ".", "2">>
S_Image == <<"q", "u", "a", "y", ":", "4", ".", "2">>
S_Partial == <<"P", "a", "r", "t", "i", "a", "l">>

\* The manifest entries a document is made of: HostedCluster entries with
\* all, some and none of the version extras (one with an empty list of
\* available updates), Certificate entries without and with feedback, and
\* an entry of another kind.
MainManifests ==
  { Manifest("HostedCluster", "my-cluster",
      << StringValue(N_AvailableStatus, S_True),
         StringValue(N_VersionCurrent, S_V41),
         StringValue(N_VersionAvailableUpdates, S_Updates) >>),
    Manifest("HostedCluster", "other-cluster",
      << StringValue(N_VersionDesired, S_V42),
         StringValue(N_VersionStatus, S_Partial),
         StringValue(N_VersionImage, S_Image),
         StringValue(N_VersionAvailableUpdates, <<>>) >>),
    Manifest("HostedCluster", "bare-cluster", <<>>),
    Manifest("Certificate", "kube-api", <<>>),
    Manifest("Certificate", "ingress",
      << StringValue(N_ReadyStatus, S_True) >>),
    Manifest("NodePool", "np0", << IntegerValue(N_Replicas, 3) >>) }

\* A document that decodes, with these labels and manifest entries.
MainDocument(labels, manifests) ==
  [ syntaxOK |-> TRUE, badPaths |-> {},
    name |-> "testid", labels |-> labels, conditions |-> <<>>,
    manifests |-> manifests,
    dnsNames |-> <<>>, notAfter |-> <<>>, renewalTime |-> <<>> ]

MainInputs ==
  {MainDocument(labels, manifests) :
     labels \in {NoLabels, (MgmtLabel :> "hs-mc-abc")},
     manifests \in UNION {[1..n -> MainManifests] : n \in 0..MaxManifests}}
    \cup {Documents.DocSyntax, Documents.DocBadLabels}

InitMain ==
  /\ Idle
  /\ NoWorkflow
  /\ input \in MainInputs
  /\ output = <<>>

\* result, err := parseMainManifestWork(input)
CallMain ==
  /\ output = <<>>
  /\ output' = <<parseMainManifestWork(input)>>
  /\ UNCHANGED <<workflow, resources, clusterID, last, prev, input>>

NextMain == CallMain

SpecMain == InitMain /\ [][NextMain]_vars

----------------------------------------------------------------------------
(* The worker-pool parser on its own: one call of                          *)
(* parseManifestWorkNodePools on a document.                               *)

S_12 == <<"1", "2">>

\* The manifest entries a document is made of: NodePool entries whose
\* Replicas value is an integer, a negative integer, a string of digits, a
\* string that is no number, and absent, and an entry of another kind.
NodePoolManifests ==
  { Manifest("NodePool", "workers",
      << StringValue(N_ReadyStatus, S_True),
         IntegerValue(N_Replicas, 3),
         StringValue(N_Version, S_V41) >>),
    Manifest("NodePool", "infra",
      << StringValue(N_Replicas, S_True),
         StringValue(N_Version, S_V42),
         StringValue(N_AvailableStatus, S_False) >>),
    Manifest("NodePool", "digits", << StringValue(N_Replicas, S_12) >>),
    Manifest("NodePool", "negative", << IntegerValue(N_Replicas, 0 - 3) >>),
    Manifest("NodePool", "bare",
      << StringValue(N_ReadyStatus, S_False),
         StringValue(N_Version, S_V41) >>),
    Manifest("ConfigMap", "cm", << IntegerValue(N_Replicas, 7) >>) }

NodePoolInputs ==
  {MainDocument(NoLabels, manifests) :
     manifests \in UNION {[1..n -> NodePoolManifests] : n \in 0..MaxManifests}}
    \cup {Documents.DocSyntax, Documents.DocBadManifests}

InitNodePools ==
  /\ Idle
  /\ NoWorkflow
  /\ input \in NodePoolInputs
  /\ output = <<>>

\* nodePools, err := parseManifestWorkNodePools(input)
CallNodePools ==
  /\ output = <<>>
  /\ output' = <<parseManifestWorkNodePools(input)>>
  /\ UNCHANGED <<workflow, resources, clusterID, last, prev, input>>

NextNodePools == CallNodePools

SpecNodePools == InitNodePools /\ [][NextNodePools]_vars

----------------------------------------------------------------------------
(* The certificate parser on its own: one call of parseCertificate on a    *)
(* document.                                                               *)

\* The conditions a certificate document is made of.
CertConditions ==
  [ type : {"Ready", "ready", "Issuing"},
    status : {"True", "False", "Unknown"},
    lastTransitionTime : {<<>>} ]

\* A document that decodes, with these conditions, DNS names and times.
CertDocument(conds, dnsNames, notAfter, renewalTime) ==
  [ syntaxOK |-> TRUE, badPaths |-> {},
    name |-> "", labels |-> NoLabels, conditions |-> conds,
    manifests |-> <<>>,
    dnsNames |-> dnsNames, notAfter |-> notAfter, renewalTime |-> renewalTime ]

\* The texts of a timestamp field: absent, no timestamp, a timestamp.
CertTimeTexts == {<<>>, TS_NotATime, TS_May, TS_April}

\* Documents that do not decode: no JSON, and a number for notAfter; and
\* one whose only type mismatch is in a path the parser does not read.
CertOddDocuments ==
  { Documents.DocSyntax,
    [CertDocument(<<>>, <<>>, <<>>, TS_April)
       EXCEPT !.badPaths = {"status.notAfter"}],
    Documents.DocBadLabels }

CertInputs ==
  {CertDocument(conds, dnsNames, notAfter, renewalTime) :
     conds \in UNION {[1..n -> CertConditions] : n \in 0..MaxConditions},
     dnsNames \in {<<>>, <<"b.example.com", "a.example.com">>},
     notAfter \in CertTimeTexts \ {TS_April},
     renewalTime \in CertTimeTexts \ {TS_May}}
    \cup CertOddDocuments

InitCert ==
  /\ Idle
  /\ NoWorkflow
  /\ input \in CertInputs
  /\ output = <<>>

\* cert, err := parseCertificate(input)
CallCert ==
  /\ output = <<>>
  /\ output' = <<parseCertificate(input)>>
  /\ UNCHANGED <<workflow, resources, clusterID, last, prev, input>>

NextCert == CallCert

SpecCert == InitCert /\ [][NextCert]_vars

----------------------------------------------------------------------------
(* The renderer: printStatus on a snapshot.  What it prints is the         *)
(* sequence of its calls of fmt.Printf, fmt.Println and fmt.Fprintf, each  *)
(* with its format and arguments; the column padding of the tabwriter is   *)
(* not part of it.  Every call of time.Since and time.Until reads the    *)
(* wall clock anew: one reading for each row of the ManifestWork table and *)
(* one for the certificate.                                                *)

\* fmt.Printf(format, args...), fmt.Fprintf(w, format, args...)
Write(format, args) == [format |-> format, args |-> args]

\* t.Sub(u) for instants less than 68 years apart: a time.Duration as its
\* whole seconds, rounded down, and the nanoseconds over them.
Sub(t, u) ==
  LET borrow == IF t.nsec < u.nsec THEN 1 ELSE 0
  IN  [s |-> (t.day - u.day) * 86400 + (t.sec - u.sec) - borrow,
       ns |-> t.nsec - u.nsec + borrow * 1000000000]

\* A float64 the renderer converts to an int: the greatest integer that is
\* not above it, and whether it is that integer.
Float(floor, whole) == [floor |-> floor, whole |-> whole]

\* -x
Neg(x) ==
  IF x.whole THEN Float(-x.floor, TRUE) ELSE Float(-x.floor - 1, FALSE)

\* int(x): towards zero.
ToInt(x) == IF x.floor < 0 /\ ~x.whole THEN x.floor + 1 ELSE x.floor

\* math.Ceil(x)
Ceil(x) == IF x.whole THEN x ELSE Float(x.floor + 1, TRUE)

\* -d of a duration d.
Negated(d) ==
  IF d.ns = 0 THEN [s |-> -d.s, ns |-> 0]
  ELSE [s |-> -d.s - 1, ns |-> 1000000000 - d.ns]

\* The exponent of the float64 n >= 1: the greatest k with 2^k <= n.
RECURSIVE Exponent(_)
Exponent(n) == IF n < 2 THEN 0 ELSE 1 + Exponent(n \div 2)

\* Half the distance between the float64 values next to units >= 1, in
\* nanoseconds rounded down, where units count spans of odd * 2^twos
\* nanoseconds: 2^(Exponent(units) - 53) of such a span.  A sum
\* float64(units) + rest rounds to a whole number when rest is no more than
\* this from it.
HalfSpacing(units, odd, twos) ==
  IF units = 0 \/ 53 - twos - Exponent(units) > 30 THEN 0
  ELSE odd \div 2^(53 - twos - Exponent(units))

\* float64(d / unit) + float64(d % unit) / float64(unit) for a duration d
\* that is not negative and a unit of unitSec seconds, which is
\* odd * 2^twos nanoseconds: both terms and the sum are rounded to the
\* nearest float64.
Scaled(d, unitSec, odd, twos) ==
  IF /\ d.s % unitSec = unitSec - 1
     /\ 1000000000 - d.ns <= HalfSpacing(d.s \div unitSec, odd, twos)
  THEN Float((d.s \div unitSec) + 1, TRUE)
  ELSE IF /\ d.s % unitSec = 0
          /\ d.ns <= HalfSpacing(d.s \div unitSec, odd, twos)
  THEN Float(d.s \div unitSec, TRUE)
  ELSE Float(d.s \div unitSec, FALSE)

\* d.Seconds(): sec := d / Second; nsec := d % Second;
\* float64(sec) + float64(nsec)/1e9
Seconds(d) ==
  IF d.s < 0 THEN Neg(Scaled(Negated(d), 1, 1953125, 9))
  ELSE Scaled(d, 1, 1953125, 9)

\* d.Minutes(): float64(min) + float64(nsec)/(60*1e9)
Minutes(d) ==
  IF d.s < 0 THEN Neg(Scaled(Negated(d), 60, 29296875, 11))
  ELSE Scaled(d, 60, 29296875, 11)

\* d.Hours(): float64(hour) + float64(nsec)/(60*60*1e9)
Hours(d) ==
  IF d.s < 0 THEN Neg(Scaled(Negated(d), 3600, 439453125, 13))
  ELSE Scaled(d, 3600, 439453125, 13)

\* h / 24 for the hours h of a duration: a whole number of days only when h
\* is a whole number of hours that 24 divides, because the float64 values
\* next to a multiple of 24 hours are more than a rounding away from it once
\* they are divided.
Over24(h) ==
  Float(h.floor \div 24, h.whole /\ h.floor % 24 = 0)

\* int(d.Seconds())
WholeSeconds(d) == ToInt(Seconds(d))

\* int(math.Ceil(d.Hours() / 24))
DaysRoundedUp(d) == ToInt(Ceil(Over24(Hours(d))))

\* fmt's %02d and %04d of a number that is not negative.
Pad(n, width) ==
  LET digits == NatToChars(n)
  IN  [i \in 1..(width - Len(digits)) |-> "0"] \o digits

\* t.Format("2006-01-02"): the date of t in its zone, for the years 0000 to
\* 9999.
DateText(t) ==
  LET local == t.sec + t.off
      n == t.day + (local \div 86400)
      year == CHOOSE y \in ((n \div 366) - 1)..((n \div 365) + 2) :
                DaysBeforeYear(y) <= n /\ n < DaysBeforeYear(y + 1)
      yday == n - DaysBeforeYear(year)
      month == CHOOSE m \in 1..12 :
                 /\ DaysBeforeMonth(m, year) <= yday
                 /\ yday < DaysBeforeMonth(m, year) + daysIn(m, year)
      day == yday - DaysBeforeMonth(month, year) + 1
  IN  Pad(year, 4) \o <<"-">> \o Pad(month, 2) \o <<"-">> \o Pad(day, 2)

\* boolStatus(b)
boolStatus(b) == IF b THEN "True" ELSE "False"

\* lastSync of printManifestWorkSync for the duration time.Since gives.
LastSyncText(duration) ==
  IF duration.s < 60 THEN Write("%ds ago", <<WholeSeconds(duration)>>)
  ELSE IF duration.s < 3600 THEN Write("%dm ago", <<ToInt(Minutes(duration))>>)
  ELSE IF duration.s < 86400 THEN Write("%dh ago", <<ToInt(Hours(duration))>>)
  ELSE Write("%dd ago", <<ToInt(Over24(Hours(duration)))>>)

\* The row of one ManifestWork, when the clock reads now.
ManifestWorkRow(mw, now) ==
  Write("  %s\t%s\t%s\t%s\n",
        <<mw.Name, boolStatus(mw.Applied), boolStatus(mw.Available),
          IF ~IsZero(mw.LastSyncTime) THEN LastSyncText(Sub(now, mw.LastSyncTime))
          ELSE "(unknown)">>)

\* printManifestWorkSync(mws), when the clock reads readings[i] at row i.
printManifestWorkSync(mws, readings) ==
  IF Len(mws) = 0 THEN <<>>
  ELSE <<Write("MANIFEST WORKS (Service Cluster -> Management Cluster)\n", <<>>),
         Write("  NAME\tAPPLIED\tAVAILABLE\tLAST SYNC\n", <<>>)>>
       \o [i \in 1..Len(mws) |-> ManifestWorkRow(mws[i], readings[i])]
       \o <<Write("\n", <<>>)>>

\* strings.Split(s, "\n")
RECURSIVE SplitLines(_)
SplitLines(s) ==
  IF IndexFrom(s, "\n", 1) = 0 THEN <<s>>
  ELSE <<SubSeq(s, 1, IndexFrom(s, "\n", 1) - 1)>>
         \o SplitLines(SubSeq(s, IndexFrom(s, "\n", 1) + 1, Len(s)))

\* unicode.IsSpace on the characters up to U+00FF: tab, line feed, vertical
\* tab, form feed, carriage return, space, U+0085 and U+00A0.
WhiteSpace == {"\t", "\n", "", "\f", "\r", " ", "", " "}

\* strings.TrimSpace(s)
RECURSIVE TrimSpace(_)
TrimSpace(s) ==
  IF s = <<>> THEN s
  ELSE IF s[1] \in WhiteSpace THEN TrimSpace(Tail(s))
  ELSE IF s[Len(s)] \in WhiteSpace THEN TrimSpace(SubSeq(s, 1, Len(s) - 1))
  ELSE s

\* The continuation lines of a message, from lines[1] on.
ContinuationRows(rest, format) ==
  LET kept == SelectSeq(rest, LAMBDA l : TrimSpace(l) # <<>>)
  IN  [i \in 1..Len(kept) |-> Write(format, <<TrimSpace(kept[i])>>)]

\* The rows of one condition, lines being its message split.
ConditionRowsOf(c, lines, format, more) ==
  <<Write(format, <<c.Type, c.Status, lines[1]>>)>>
    \o ContinuationRows(Tail(lines), more)

\* The loop over the conditions of printHostedClusterStatus and
\* printNodePoolStatus.
RECURSIVE ConditionRows(_, _, _)
ConditionRows(conditions, format, more) ==
  IF conditions = <<>> THEN <<>>
  ELSE ConditionRowsOf(Head(conditions),
                       SplitLines(IF Head(conditions).Message = <<>>
                                  THEN Head(conditions).Reason
                                  ELSE Head(conditions).Message),
                       format, more)
         \o ConditionRows(Tail(conditions), format, more)

\* The version lines of printHostedClusterStatus.
VersionLines(version) ==
  IF version.Current # <<>> \/ version.Desired # <<>> \/ version.Status # <<>>
  THEN <<IF version.Current # <<>>
         THEN Write("    Current:\t%s", <<version.Current>>)
         ELSE Write("    Current:\t(not available)", <<>>)>>
       \o (IF version.Desired # <<>>
           THEN <<Write("\tDesired: %s", <<version.Desired>>)>> ELSE <<>>)
       \o (IF version.Status # <<>>
           THEN <<Write("\tStatus: %s", <<version.Status>>)>> ELSE <<>>)
       \o <<Write("\n", <<>>)>>
       \o (IF Len(version.AvailableUpdates) > 0
           THEN <<Write("    Available Updates:\t%s\n",
                        <<version.AvailableUpdates>>)>>
           ELSE <<>>)
       \o (IF version.Status # <<>>
              /\ version.Status # <<"C", "o", "m", "p", "l", "e", "t", "e", "d">>
           THEN <<Write("    Note:\tCheck ClusterVersion conditions below for details\n",
                        <<>>)>>
           ELSE <<>>)
  ELSE <<Write("    Version:\t(not available)\n", <<>>)>>

\* printHostedClusterStatus(title, conditions, version)
printHostedClusterStatus(title, conditions, version) ==
  <<Write("%s\n", <<title>>), Write("  CONTROL PLANE VERSION\n", <<>>)>>
    \o VersionLines(version)
    \o <<Write("\n", <<>>)>>
    \o (IF Len(conditions) > 0
        THEN <<Write("  CONDITIONS\n", <<>>),
               Write("    CONDITION\tSTATUS\tMESSAGE\n", <<>>)>>
             \o ConditionRows(conditions, "    %s\t%s\t%s\n", "    \t\t%s\n")
        ELSE <<>>)
    \o <<Write("\n", <<>>)>>

\* printCertificateStatus(title, c), when the clock reads now.
printCertificateStatus(title, c, now) ==
  <<Write("%s\n", <<title>>),
    Write("  Status:\t%s\n",
          <<IF c.Ready = <<>> THEN "Unknown"
            ELSE IF c.Ready[1] THEN "Ready" ELSE "Not Ready">>)>>
    \o (IF ~IsZero(c.NotAfter)
        THEN <<Write("  Expires:\t%s (%dd remaining)\n",
                     <<DateText(c.NotAfter), DaysRoundedUp(Sub(c.NotAfter, now))>>)>>
        ELSE <<>>)
    \o (IF ~IsZero(c.RenewalTime)
        THEN <<Write("  Renews:\t%s\n", <<DateText(c.RenewalTime)>>)>>
        ELSE <<>>)
    \o (IF Len(c.DNSNames) > 0
        THEN <<Write("  DNS Names:\t%s\n", <<c.DNSNames[1]>>)>>
             \o [i \in 1..(Len(c.DNSNames) - 1) |->
                   Write("\t%s\n", <<c.DNSNames[i + 1]>>)]
        ELSE <<>>)
    \o <<Write("\n", <<>>)>>

\* details of printNodePoolStatus.
NodePoolDetails(np) ==
  (IF np.Replicas > 0 THEN <<Write("%d replicas", <<np.Replicas>>)>> ELSE <<>>)
    \o (IF np.Version # <<>> THEN <<Write("v%s", <<np.Version>>)>> ELSE <<>>)

\* printNodePoolStatus(np)
printNodePoolStatus(np) ==
  <<Write("NODEPOOL: %s", <<np.Name>>)>>
    \o (IF Len(NodePoolDetails(np)) > 0
        THEN <<Write(" (%s)", <<NodePoolDetails(np)>>)>> ELSE <<>>)
    \o <<Write("\n", <<>>), Write("  CONDITION\tSTATUS\tMESSAGE\n", <<>>)>>
    \o ConditionRows(np.Conditions, "  %s\t%s\t%s\n", "  \t\t%s\n")
    \o <<Write("\n", <<>>)>>

\* The loop of printStatus over the node pools.
RECURSIVE NodePoolSections(_)
NodePoolSections(nodePools) ==
  IF nodePools = <<>> THEN <<>>
  ELSE printNodePoolStatus(Head(nodePools)) \o NodePoolSections(Tail(nodePools))

\* The lines of a section that has nothing to show.
NothingFound(title, line) ==
  <<Write(title, <<>>), Write(line, <<>>),
    Write("  (Cluster may not be fully installed yet or may be in a transitional state)\n",
          <<>>),
    Write("\n", <<>>)>>

\* printStatus(s), when the clock reads clock.rows[i] at the i-th row of the
\* ManifestWork table and clock.cert at the expiry of the certificate.
printStatus(s, clock) ==
  <<Write("HCP Cluster Status: %s (%s)\n", <<s.ClusterName, s.ClusterID>>)>>
    \o (IF s.ClusterState # ""
        THEN <<Write("Cluster State: %s\n", <<s.ClusterState>>)>> ELSE <<>>)
    \o (IF s.ManagementCluster # ""
        THEN <<Write("Management Cluster: %s\n", <<s.ManagementCluster>>)>>
        ELSE <<>>)
    \o <<Write("\n", <<>>)>>
    \o (IF Len(s.ManifestWorks) = 0
        THEN NothingFound("MANIFEST WORKS (Service Cluster -> Management Cluster)\n",
                          "  No ManifestWork resources found\n")
        ELSE printManifestWorkSync(s.ManifestWorks, clock.rows))
    \o (IF Len(s.HostedClusterConditions) = 0
        THEN NothingFound("HOSTED CLUSTER\n",
                          "  No HostedCluster conditions available\n")
        ELSE printHostedClusterStatus("HOSTED CLUSTER", s.HostedClusterConditions,
                                      s.Version))
    \o (IF s.APIServerCertificate # <<>>
        THEN <<Write("CLUSTER KUBE API CERTIFICATE\n", <<>>),
               Write("  Certificate resource found in ManifestWork\n", <<>>),
               Write("  (Detailed status not available - ACM feedback rules not yet implemented)\n",
                     <<>>),
               Write("\n", <<>>)>>
        ELSE <<>>)
    \o (IF s.IngressCertificate # <<>>
        THEN printCertificateStatus("DEFAULT INGRESS CERTIFICATE",
                                    s.IngressCertificate[1], clock.cert)
        ELSE NothingFound("DEFAULT INGRESS CERTIFICATE\n",
                          "  No certificate information available\n"))
    \o (IF Len(s.NodePools) = 0
        THEN NothingFound("NODEPOOLS\n", "  No NodePool resources found\n")
        ELSE NodePoolSections(s.NodePools))

\* The snapshots printStatus is called on: each optional part absent and
\* present.
RenderConditions ==
  { <<>>,
    << [Type |-> <<"R", "e", "a", "d", "y">>, Status |-> S_True,
        Reason |-> <<"O", "K">>, Message |-> <<>>, LastTransitionTime |-> <<>>],
       [Type |-> <<"U", "p">>, Status |-> S_False, Reason |-> <<>>,
        Message |-> <<"a", "\n", " ", "b", " ", "\n", " ", "\n", "">>,
        LastTransitionTime |-> <<>>] >> }

RenderVersions ==
  { ZeroVersionInfo,
    [ZeroVersionInfo EXCEPT !.Desired = S_V42, !.Status = S_Partial],
    [Current |-> S_V41, Desired |-> S_V42,
     Status |-> <<"C", "o", "m", "p", "l", "e", "t", "e", "d">>,
     Image |-> S_Image, AvailableUpdates |-> <<S_V42>>] }

RenderCertificates ==
  { <<>>,
    <<ZeroCertificateStatus>>,
    <<[Ready |-> <<FALSE>>, NotAfter |-> ParseTime(TS_May).t,
       RenewalTime |-> ZeroTime,
       DNSNames |-> <<"a.example.com">>]>>,
    <<[Ready |-> <<TRUE>>, NotAfter |-> ParseTime(TS_May).t,
       RenewalTime |-> ParseTime(TS_April).t,
       DNSNames |-> <<"a.example.com", "b.example.com">>]>> }

RenderManifestWorks ==
  { <<>>,
    << [Name |-> "testid", Applied |-> TRUE, Available |-> FALSE,
        LastSyncTime |-> ZeroTime] >>,
    << [Name |-> "testid", Applied |-> TRUE, Available |-> TRUE,
        LastSyncTime |-> ParseTime(TS_1200East).t],
       [Name |-> "testid-workers", Applied |-> FALSE, Available |-> TRUE,
        LastSyncTime |-> ParseTime(TS_1010).t] >> }

RenderNodePools ==
  { <<>>,
    << [Name |-> "bare", Replicas |-> 0, Version |-> <<>>, Conditions |-> <<>>] >>,
    << [Name |-> "workers", Replicas |-> 3, Version |-> S_V41,
        Conditions |-> << [Type |-> <<"R", "e", "a", "d", "y">>,
                           Status |-> S_True, Reason |-> <<>>,
                           Message |-> <<>>, LastTransitionTime |-> <<>>] >>],
       [Name |-> "infra", Replicas |-> 0, Version |-> S_V42,
        Conditions |-> <<>>] >> }

RenderInputs ==
  [ ClusterID : {"ext-id"}, ClusterName : {"my-cluster"},
    ClusterState : {"", "ready"},
    ManagementCluster : {"", "hs-mc-abc"},
    Version : RenderVersions,
    APIServerCertificate : {<<>>, <<ZeroCertificateStatus>>},
    IngressCertificate : RenderCertificates,
    ManifestWorks : RenderManifestWorks,
    HostedClusterConditions : RenderConditions,
    NodePools : RenderNodePools ]

\* The readings of the clock: seconds, minutes, hours and days after the
\* latest sync, before and after the expiry of the certificate; 2^24
\* seconds and a nanosecond less than a second before a sync, and 200 days
\* less a nanosecond after one, where the float64 arithmetic rounds.
Clock ==
  { Time(739653, 36630, 500000000, 0), Time(739653, 39599, 0, 0),
    Time(739653, 43200, 0, 0), Time(739657, 36000, 0, 0),
    Time(739745, 0, 0, 0), Time(739459, 20983, 1, 0),
    Time(739853, 35999, 999999999, 0) }

\* The readings of one call of printStatus on s.
Readings(s) == [rows : [1..Len(s.ManifestWorks) -> Clock], cert : Clock]

InitRender ==
  /\ Idle
  /\ NoWorkflow
  /\ input \in RenderInputs
  /\ output = <<>>

\* printStatus(input)
CallRender ==
  \E clock \in Readings(input) :
    /\ output = <<>>
    /\ output' = <<printStatus(input, clock)>>
    /\ UNCHANGED <<workflow, resources, clusterID, last, prev, input>>

NextRender == CallRender

SpecRender == InitRender /\ [][NextRender]_vars

----------------------------------------------------------------------------
(* Properties of parseFeedbackValues (SpecFeedback).                       *)

\* The position of the first hyphen of name, 0 when it has none.
FirstHyphen(name) ==
  IF \E i \in 1..Len(name) : name[i] = "-"
  THEN CHOOSE i \in 1..Len(name) :
         name[i] = "-" /\ \A j \in 1..(i - 1) : name[j] # "-"
  ELSE 0

\* The part of name before its first hyphen, and the part after it.
PrefixOf(name) == SubSeq(name, 1, FirstHyphen(name) - 1)

SuffixOf(name) == SubSeq(name, FirstHyphen(name) + 1, Len(name))

\* The entry of this name belongs to a condition: its suffix is a recognized
\* field and its prefix is not excluded.
RoutesToCondition(name) ==
  /\ FirstHyphen(name) # 0
  /\ SuffixOf(name) \in {F_Status, F_Reason, F_Message, F_LastTransitionTime}
  /\ PrefixOf(name) # N_Version

\* The elements of s in order of first appearance, each once.
RECURSIVE FirstAppearances(_, _)
FirstAppearances(s, seen) ==
  IF s = <<>> THEN <<>>
  ELSE IF Head(s) \in seen THEN FirstAppearances(Tail(s), seen)
  ELSE <<Head(s)>> \o FirstAppearances(Tail(s), seen \cup {Head(s)})

\* The condition types of the entries of values that belong to a condition.
RoutedTypes(values) ==
  LET routed == SelectSeq(values, LAMBDA fv : RoutesToCondition(fv.Name))
  IN  [i \in 1..Len(routed) |-> PrefixOf(routed[i].Name)]

TypesOf(conditions) == [i \in 1..Len(conditions) |-> conditions[i].Type]

\* C11: the condition list has each condition type at most once, its types
\* are the first-hyphen prefixes of the entries with a recognized field
\* suffix and a prefix that is not excluded, and they stand in the order of
\* their first appearance in the input.
C11_ConditionTypesInFirstAppearanceOrder ==
  output # <<>> =>
    /\ \A i, j \in 1..Len(output[1].conditions) :
         i # j => output[1].conditions[i].Type # output[1].conditions[j].Type
    /\ TypesOf(output[1].conditions) = FirstAppearances(RoutedTypes(input), {})

\* The flattener has run on a type that appears twice, after another type.
C11_Witness ==
  /\ output # <<>>
  /\ Len(input) = 3
  /\ RoutedTypes(input) =
       <<PrefixOf(N_ReadyStatus), PrefixOf(N_AvailableStatus),
         PrefixOf(N_AvailableStatus)>>
  /\ Len(output[1].conditions) = 2

\* The decimal form of the integer payloads.
Decimal ==
  (0 :> <<"0">>) @@ (3 :> <<"3">>) @@ (7 :> <<"7">>) @@ (12 :> <<"1", "2">>) @@
  ((0 - 3) :> <<"-", "3">>)

\* What an entry is stored as: the decimal form of an integer-typed payload,
\* the string payload of any other.
StoredText(fv) ==
  IF fv.FieldValue.Type = "Integer" THEN Decimal[fv.FieldValue.Integer]
  ELSE fv.FieldValue.String

\* The field of condition c that a name with this suffix goes to.
FieldOf(c, suffix) ==
  IF suffix = F_Status THEN c.Status
  ELSE IF suffix = F_Reason THEN c.Reason
  ELSE IF suffix = F_Message THEN c.Message
  ELSE c.LastTransitionTime

\* Where the result holds the entries of this name: the field of the
\* condition of its type, or the extra of its name.
HasSlot(out, name) ==
  IF RoutesToCondition(name)
  THEN \E i \in 1..Len(out.conditions) : out.conditions[i].Type = PrefixOf(name)
  ELSE name \in DOMAIN out.extras

SlotOf(out, name) ==
  IF RoutesToCondition(name)
  THEN FieldOf(out.conditions[CHOOSE i \in 1..Len(out.conditions) :
                                out.conditions[i].Type = PrefixOf(name)],
               SuffixOf(name))
  ELSE out.extras[name]

\* C12: when the same condition field appears more than once in the input,
\* the Condition keeps the value seen first.
C12_FirstSeenFieldValueWins ==
  output # <<>> =>
    \A i \in 1..Len(input) :
      ( /\ RoutesToCondition(input[i].Name)
        /\ \A j \in 1..(i - 1) : input[j].Name # input[i].Name )
      => /\ HasSlot(output[1], input[i].Name)
         /\ SlotOf(output[1], input[i].Name) = StoredText(input[i])

\* No entry of values belongs to a condition.
ExtrasOnly(values) ==
  \A i \in 1..Len(values) : ~RoutesToCondition(values[i].Name)

\* C13 as stated: on an input without condition entries there are no
\* conditions and the extras map has as many entries as the input.
C13_ExtrasSizeIsInputSize ==
  (output # <<>> /\ ExtrasOnly(input)) =>
    /\ output[1].conditions = <<>>
    /\ Cardinality(DOMAIN output[1].extras) = Len(input)

\* C13, amended: on an input without condition entries there are no
\* conditions and the extras map has one entry for each distinct name of the
\* input.
C13_ExtrasSizeIsDistinctNames ==
  (output # <<>> /\ ExtrasOnly(input)) =>
    /\ output[1].conditions = <<>>
    /\ Cardinality(DOMAIN output[1].extras) =
         Cardinality({input[i].Name : i \in 1..Len(input)})

\* The flattener has run on three extras, two of them of one name.
C13_Witness ==
  /\ output # <<>>
  /\ ExtrasOnly(input)
  /\ Len(input) = 3
  /\ Cardinality({input[i].Name : i \in 1..Len(input)}) = 2
  /\ Cardinality(DOMAIN output[1].extras) = 2

\* C14: an integer-typed entry is stored as the decimal string of its
\* integer payload, an entry of any other type as its string payload, in the
\* extras map and in a Condition field alike: what the result holds for a
\* name is that form of one of the entries of the name.
C14_IntegersStoredInDecimal ==
  output # <<>> =>
    \A i \in 1..Len(input) :
      /\ HasSlot(output[1], input[i].Name)
      /\ SlotOf(output[1], input[i].Name) \in
           {StoredText(input[j]) :
              j \in {k \in 1..Len(input) : input[k].Name = input[i].Name}}

\* The flattener has run on an integer that goes to a condition field, an
\* integer that goes to the extras and a payload that is neither a string
\* nor an integer.
C14_Witness ==
  /\ output # <<>>
  /\ \E i, j, k \in 1..Len(input) :
       /\ input[i].FieldValue.Type = "Integer"
       /\ RoutesToCondition(input[i].Name)
       /\ input[i].FieldValue.String # <<>>
       /\ input[j].FieldValue.Type = "Integer"
       /\ ~RoutesToCondition(input[j].Name)
       /\ input[k].FieldValue.Type \notin {"Integer", "String"}
  /\ output[1].extras[N_Replicas] = <<"3">>

\* The name starts with "Version-".
HasVersionPrefix(name) == FirstHyphen(name) # 0 /\ PrefixOf(name) = N_Version

\* C15: an entry whose first-hyphen prefix is "Version" creates no Condition
\* and changes none, also when its suffix is a recognized condition field;
\* it is an extra under its whole name.
C15_VersionEntriesAreExtras ==
  output # <<>> =>
    /\ \A i \in 1..Len(output[1].conditions) :
         output[1].conditions[i].Type # N_Version
    /\ \A i \in 1..Len(input) :
         HasVersionPrefix(input[i].Name) =>
           input[i].Name \in DOMAIN output[1].extras
    /\ output[1].conditions =
         parseFeedbackValues(
           SelectSeq(input, LAMBDA fv : ~HasVersionPrefix(fv.Name))).conditions

\* The flattener has run on "Version-Status" between two condition entries.
C15_Witness ==
  /\ output # <<>>
  /\ Len(input) = 3
  /\ RoutesToCondition(input[1].Name)
  /\ input[2].Name = N_VersionStatus
  /\ RoutesToCondition(input[3].Name)
  /\ N_VersionStatus \in DOMAIN output[1].extras

----------------------------------------------------------------------------
(* Properties of parseManifestWorkSyncStatus (SpecSync).                   *)

\* The positions of the conditions of exactly this type.
OfType(conds, type) == {i \in 1..Len(conds) : conds[i].type = type}

\* The greatest element of a non-empty set of integers.
Greatest(S) == CHOOSE x \in S : \A y \in S : y <= x

\* Some condition has exactly this type, and the latest of them has status
\* "True".
FlagOf(conds, type) ==
  /\ OfType(conds, type) # {}
  /\ conds[Greatest(OfType(conds, type))].status = "True"

\* The instants of the timestamps of conds that parse.
ParsedTimes(conds) ==
  {ParseTime(conds[i].lastTransitionTime).t :
     i \in {j \in 1..Len(conds) : ParseTime(conds[j].lastTransitionTime).ok}}

\* An instant of S that none of S lies after.
Latest(S) == CHOOSE t \in S : \A u \in S : ~After(u, t)

\* C16: the applied flag is decided by the conditions of type "Applied"
\* only and the available flag by those of type "Available" only, matched
\* exactly; a flag is true only for status "True" and false without such a
\* condition; a condition of another type changes no flag, but its
\* timestamp counts for LastSyncTime.
C16_FlagsFromExactTypes ==
  (output # <<>> /\ input.syntaxOK) =>
    /\ output[1].err = <<>>
    /\ output[1].val.Applied = FlagOf(input.conditions, "Applied")
    /\ output[1].val.Available = FlagOf(input.conditions, "Available")
    /\ \A i \in 1..Len(input.conditions) :
         ( /\ input.conditions[i].type \notin {"Applied", "Available"}
           /\ ParseTime(input.conditions[i].lastTransitionTime).ok )
         => ~After(ParseTime(input.conditions[i].lastTransitionTime).t,
                   output[1].val.LastSyncTime)

\* The parser has run on "applied" with status "True" and the only
\* timestamp, and "Available" with status "True".
C16_Witness ==
  /\ output # <<>>
  /\ input.syntaxOK
  /\ Len(input.conditions) = 2
  /\ input.conditions[1] =
       [type |-> "applied", status |-> "True",
        lastTransitionTime |-> TS_1005]
  /\ input.conditions[2].type = "Available"
  /\ input.conditions[2].status = "True"
  /\ input.conditions[2].lastTransitionTime = <<>>
  /\ ~output[1].val.Applied
  /\ output[1].val.Available
  /\ output[1].val.LastSyncTime = Time(739653, 36300, 0, 0)

\* C17: LastSyncTime is the maximum of the timestamps that parse as RFC
\* 3339, over all conditions whatever their type and status, and the zero
\* time when none parses; an empty or unparsable timestamp is skipped
\* without an error.
C17_LastSyncTimeIsMaximum ==
  (output # <<>> /\ input.syntaxOK) =>
    /\ output[1].err = <<>>
    /\ IF ParsedTimes(input.conditions) = {}
       THEN output[1].val.LastSyncTime = ZeroTime
       ELSE SameInstant(output[1].val.LastSyncTime,
                        Latest(ParsedTimes(input.conditions)))

----------------------------------------------------------------------------
(* Properties of parseMainManifestWork (SpecMain).                         *)

\* The document decodes.
Decodes(doc) == doc.syntaxOK /\ doc.badPaths = {}

\* The parser has returned a result for a document that decodes.
MainDone == output # <<>> /\ Decodes(input)

\* C18: the result has a CertificateStatus exactly when the document has a
\* manifest entry of kind "Certificate"; it then has unknown readiness, zero
\* expiry and renewal times and no DNS names, whatever feedback the entry
\* carries.
C18_CertificateObservedButUnknown ==
  MainDone =>
    /\ output[1].err = <<>>
    /\ output[1].val[1].Certificate # <<>>
         <=> \E i \in 1..Len(input.manifests) :
               input.manifests[i].Kind = "Certificate"
    /\ output[1].val[1].Certificate # <<>> =>
         output[1].val[1].Certificate[1] =
           [Ready |-> <<>>, NotAfter |-> ZeroTime, RenewalTime |-> ZeroTime,
            DNSNames |-> <<>>]

\* The parser has run on a document whose only Certificate entry carries
\* the feedback Ready-Status = True.
C18_Witness ==
  /\ MainDone
  /\ \E i \in 1..Len(input.manifests) :
       /\ input.manifests[i].Kind = "Certificate"
       /\ input.manifests[i].Values # <<>>
  /\ \A i \in 1..Len(input.manifests) :
       input.manifests[i].Kind = "Certificate" => input.manifests[i].Values # <<>>
  /\ output[1].val[1].Certificate # <<>>
  /\ output[1].val[1].Certificate[1].Ready = <<>>

\* The payloads of the feedback values of this name in the HostedCluster
\* entries of doc, in document order.
HostedClusterExtra(doc, name) ==
  LET hosted == SelectSeq(doc.manifests, LAMBDA m : m.Kind = "HostedCluster")
      RECURSIVE Payloads(_)
      Payloads(entries) ==
        IF entries = <<>> THEN <<>>
        ELSE LET named == SelectSeq(Head(entries).Values,
                                    LAMBDA fv : fv.Name = name)
             IN  (IF named = <<>> THEN <<>>
                  ELSE <<named[Len(named)].FieldValue.String>>)
                   \o Payloads(Tail(entries))
  IN  Payloads(hosted)

\* The last element of s, or the empty string.
LastOrEmpty(s) == IF s = <<>> THEN <<>> ELSE s[Len(s)]

\* The comma-separated lists of the documents, split.
CommaSplit == (S_Updates :> <<S_V42, <<"4", ".", "3">> >>)

\* C19: the extras Version-Current, Version-Desired, Version-Status and
\* Version-Image of the HostedCluster entry are the VersionInfo strings,
\* empty when absent, and Version-AvailableUpdates split on commas is the
\* sequence of available updates, empty when the extra is empty or absent
\* (with several HostedCluster entries, the latest that has the extra
\* counts).
C19_VersionInfoFromExtras ==
  MainDone =>
    /\ output[1].err = <<>>
    /\ output[1].val[1].Version.Current =
         LastOrEmpty(HostedClusterExtra(input, N_VersionCurrent))
    /\ output[1].val[1].Version.Desired =
         LastOrEmpty(HostedClusterExtra(input, N_VersionDesired))
    /\ output[1].val[1].Version.Status =
         LastOrEmpty(HostedClusterExtra(input, N_VersionStatus))
    /\ output[1].val[1].Version.Image =
         LastOrEmpty(HostedClusterExtra(input, N_VersionImage))
    /\ output[1].val[1].Version.AvailableUpdates =
         LET lists == SelectSeq(HostedClusterExtra(input, N_VersionAvailableUpdates),
                                LAMBDA l : l # <<>>)
         IN  IF lists = <<>> THEN <<>> ELSE CommaSplit[lists[Len(lists)]]

\* The parser has run on a document with one HostedCluster entry, which has
\* a current version and two available updates and no desired version.
C19_Witness ==
  /\ MainDone
  /\ Cardinality({i \in 1..Len(input.manifests) :
                    input.manifests[i].Kind = "HostedCluster"}) = 1
  /\ output[1].val[1].Version.Current = S_V41
  /\ output[1].val[1].Version.Desired = <<>>
  /\ Len(output[1].val[1].Version.AvailableUpdates) = 2

\* C20: the management-cluster name is the value of the metadata label
\* "api.openshift.com/management-cluster", empty when the label is missing,
\* whatever the manifest list holds.
C20_MgmtClusterFromLabel ==
  MainDone =>
    /\ output[1].err = <<>>
    /\ output[1].val[1].MgmtCluster =
         IF "api.openshift.com/management-cluster" \in DOMAIN input.labels
         THEN input.labels["api.openshift.com/management-cluster"]
         ELSE ""

\* The parser has run on a labelled document with a HostedCluster entry
\* and a Certificate entry.
C20_Witness ==
  /\ MainDone
  /\ "api.openshift.com/management-cluster" \in DOMAIN input.labels
  /\ \E i, j \in 1..Len(input.manifests) :
       /\ input.manifests[i].Kind = "HostedCluster"
       /\ input.manifests[j].Kind = "Certificate"
  /\ output[1].val[1].MgmtCluster = "hs-mc-abc"

----------------------------------------------------------------------------
(* Properties of parseManifestWorkNodePools (SpecNodePools).               *)

\* The feedback values of this name of a manifest entry.
Named(manifest, name) == SelectSeq(manifest.Values, LAMBDA fv : fv.Name = name)

\* The strings of the documents that are integers, and their values.
IntegerOf == (S_12 :> 12)

\* The replica count the entry stands for: its Replicas value when that is
\* of integer type or a string that is an integer, 0 otherwise.
ReplicasExpected(manifest) ==
  LET named == Named(manifest, N_Replicas)
      fv    == named[Len(named)].FieldValue
  IN  IF named = <<>> THEN 0
      ELSE IF fv.Type = "Integer" THEN fv.Integer
      ELSE IF fv.String \in DOMAIN IntegerOf THEN IntegerOf[fv.String]
      ELSE 0

\* The version the entry stands for.
VersionExpected(manifest) ==
  LET named == Named(manifest, N_Version)
  IN  IF named = <<>> THEN <<>> ELSE StoredText(named[Len(named)])

\* The NodePool entries of a document, in document order.
NodePoolEntries(doc) == SelectSeq(doc.manifests, LAMBDA m : m.Kind = "NodePool")

\* C21: a Replicas value of integer type n gives Replicas = n; an absent
\* Replicas value, or a string that is no integer, gives Replicas = 0
\* without an error, and the name, version and conditions of that worker
\* pool are returned all the same.
C21_ReplicasOrZero ==
  (output # <<>> /\ Decodes(input)) =>
    /\ output[1].err = <<>>
    /\ Len(output[1].val) = Len(NodePoolEntries(input))
    /\ \A i \in 1..Len(NodePoolEntries(input)) :
         /\ output[1].val[i].Replicas = ReplicasExpected(NodePoolEntries(input)[i])
         /\ output[1].val[i].Name = NodePoolEntries(input)[i].Name
         /\ output[1].val[i].Version = VersionExpected(NodePoolEntries(input)[i])
         /\ output[1].val[i].Conditions =
              parseFeedbackValues(NodePoolEntries(input)[i].Values).conditions

\* The parser has run on a pool with 3 replicas, a pool whose Replicas value
\* is the string "True" and a pool without a Replicas value.
C21_Witness ==
  /\ output # <<>>
  /\ Decodes(input)
  /\ Len(input.manifests) = 3
  /\ input.manifests[1].Name = "workers"
  /\ input.manifests[2].Name = "infra"
  /\ input.manifests[3].Name = "bare"
  /\ Len(output[1].val) = 3
  /\ output[1].val[1].Replicas = 3
  /\ output[1].val[2].Replicas = 0
  /\ output[1].val[2].Version = S_V42
  /\ Len(output[1].val[2].Conditions) = 1
  /\ output[1].val[3].Replicas = 0

----------------------------------------------------------------------------
(* Properties of parseCertificate (SpecCert).                              *)

\* The paths of a certificate document that the parser reads.
CertificatePaths ==
  {"spec.dnsNames", "status.conditions", "status.notAfter", "status.renewalTime"}

\* The document is JSON and every path the parser reads has a value of the
\* type of its field.
CertDecodes(doc) == doc.syntaxOK /\ doc.badPaths \cap CertificatePaths = {}

\* C22: readiness is unknown exactly when no condition has the type
\* "Ready", matched exactly; with such a condition it is known, ready for
\* the status "True" and not ready for any other status (the latest such
\* condition counts); conditions of other types do not affect it.
C22_ReadinessFromReadyCondition ==
  (output # <<>> /\ CertDecodes(input)) =>
    /\ output[1].err = <<>>
    /\ output[1].val[1].Ready = <<>> <=> OfType(input.conditions, "Ready") = {}
    /\ OfType(input.conditions, "Ready") # {} =>
         output[1].val[1].Ready =
           <<input.conditions[Greatest(OfType(input.conditions, "Ready"))].status
               = "True">>

\* The parser has run on "ready" with status "True" alone, which leaves the
\* readiness unknown.
C22_Witness ==
  /\ output # <<>>
  /\ CertDecodes(input)
  /\ Len(input.conditions) = 1
  /\ input.conditions[1].type = "ready"
  /\ input.conditions[1].status = "True"
  /\ output[1].val[1].Ready = <<>>

\* The instant a timestamp field stands for: zero when it is absent or no
\* timestamp.
InstantOf(text) == IF ParseTime(text).ok THEN ParseTime(text).t ELSE ZeroTime

\* C23: parseCertificate fails only on a document that does not decode; an
\* absent or unparsable notAfter or renewalTime leaves that time zero
\* without an error and without a change to the other time, the readiness
\* or the DNS names, which are those of the document in their order.
C23_UnparsableTimesTolerated ==
  output # <<>> =>
    /\ output[1].err # <<>> <=> ~CertDecodes(input)
    /\ output[1].err # <<>> => output[1].val = <<>>
    /\ CertDecodes(input) =>
         /\ output[1].val[1].NotAfter = InstantOf(input.notAfter)
         /\ output[1].val[1].RenewalTime = InstantOf(input.renewalTime)
         /\ output[1].val[1].DNSNames = input.dnsNames
         /\ output[1].val[1].Ready = <<>>
              <=> OfType(input.conditions, "Ready") = {}

\* The parser has run on a document with an unparsable notAfter, a
\* renewalTime that parses, two DNS names and a Ready condition.
C23_Witness ==
  /\ output # <<>>
  /\ CertDecodes(input)
  /\ input.notAfter = TS_NotATime
  /\ input.renewalTime = TS_April
  /\ Len(input.dnsNames) = 2
  /\ OfType(input.conditions, "Ready") # {}
  /\ output[1].err = <<>>
  /\ output[1].val[1].NotAfter = ZeroTime
  /\ output[1].val[1].RenewalTime = Time(739712, 43200, 0, 0)

----------------------------------------------------------------------------
(* Properties of printStatus (SpecRender).                                 *)

\* What was printed has a call with this format.
Printed(format) == \E i \in 1..Len(output[1]) : output[1][i].format = format

\* What was printed has one of these formats.
PrintedOneOf(formats) == \E f \in formats : Printed(f)

\* C24: the absence of every optional field shows in what is printed: a
\* zero or empty management cluster, cluster state, version field,
\* control-plane certificate, ingress certificate (and its expiry, renewal
\* and DNS names), list of sync summaries, list of conditions and list of
\* worker pools (and the replica count and version of a pool) each has a
\* line of its own that says so.
C24_AbsenceIsRendered ==
  output # <<>> =>
    /\ input.ManagementCluster = "" => Printed("Management Cluster: %s\n")
    /\ input.ClusterState = "" => Printed("Cluster State: %s\n")
    /\ input.APIServerCertificate = <<>> =>
         Printed("CLUSTER KUBE API CERTIFICATE\n")
    /\ input.IngressCertificate = <<>> =>
         Printed("  No certificate information available\n")
    /\ input.ManifestWorks = <<>> => Printed("  No ManifestWork resources found\n")
    /\ input.HostedClusterConditions = <<>> =>
         Printed("  No HostedCluster conditions available\n")
    /\ input.NodePools = <<>> => Printed("  No NodePool resources found\n")
    /\ (input.HostedClusterConditions # <<>> /\ input.Version.Current = <<>>) =>
         PrintedOneOf({"    Current:\t(not available)", "    Version:\t(not available)\n"})
    /\ (input.IngressCertificate # <<>>
          /\ IsZero(input.IngressCertificate[1].NotAfter)) =>
         Printed("  Expires:\t%s (%dd remaining)\n")
    /\ (input.IngressCertificate # <<>>
          /\ IsZero(input.IngressCertificate[1].RenewalTime)) =>
         Printed("  Renews:\t%s\n")
    /\ (input.IngressCertificate # <<>>
          /\ input.IngressCertificate[1].DNSNames = <<>>) =>
         Printed("  DNS Names:\t%s\n")
    /\ \A i \in 1..Len(input.NodePools) :
         (input.NodePools[i].Replicas = 0 /\ input.NodePools[i].Version = <<>>)
         => \E j \in 1..Len(output[1]) :
              /\ output[1][j].format = "NODEPOOL: %s"
              /\ output[1][j].args = <<input.NodePools[i].Name>>
              /\ output[1][j + 1].format = " (%s)"

----------------------------------------------------------------------------
(* Further properties of parseFeedbackValues (SpecFeedback),               *)
(* parseLiveResources (Spec) and parseMainManifestWork (SpecMain).         *)

\* The position of the last hyphen of name, 0 when it has none.
LastHyphen(name) ==
  IF \E i \in 1..Len(name) : name[i] = "-"
  THEN CHOOSE i \in 1..Len(name) :
         name[i] = "-" /\ \A j \in (i + 1)..Len(name) : name[j] # "-"
  ELSE 0

\* The name reads T-F with a hyphen in the condition type T and a recognized
\* field F.
HyphenatedType(name) ==
  /\ LastHyphen(name) # FirstHyphen(name)
  /\ SubSeq(name, LastHyphen(name) + 1, Len(name))
       \in {F_Status, F_Reason, F_Message, F_LastTransitionTime}

\* C25: an entry named T-F, with a hyphen in the intended condition type T
\* and a recognized field F, is split at its first hyphen only: there is no
\* Condition of type T, and as the text after the first hyphen is no
\* recognized field the entry is an extra under its whole name.
C25_HyphenatedTypeIsMisSplit ==
  output # <<>> =>
    \A i \in 1..Len(input) :
      HyphenatedType(input[i].Name) =>
        /\ \A j \in 1..Len(output[1].conditions) :
             output[1].conditions[j].Type #
               SubSeq(input[i].Name, 1, LastHyphen(input[i].Name) - 1)
        /\ SuffixOf(input[i].Name)
             \notin {F_Status, F_Reason, F_Message, F_LastTransitionTime}
        /\ input[i].Name \in DOMAIN output[1].extras
        /\ output[1].extras[input[i].Name] \in
             {StoredText(input[j]) :
                j \in {k \in 1..Len(input) : input[k].Name = input[i].Name}}
        /\ TypesOf(output[1].conditions) =
             TypesOf(parseFeedbackValues(
                       SelectSeq(input, LAMBDA fv : ~HyphenatedType(fv.Name))).conditions)

\* The flattener has run on "Etcd-Ready-Status" after a condition entry.
C25_Witness ==
  /\ output # <<>>
  /\ Len(input) = 2
  /\ input[1].Name = N_ReadyStatus
  /\ input[2].Name = N_EtcdReadyStatus
  /\ Len(output[1].conditions) = 1
  /\ N_EtcdReadyStatus \in DOMAIN output[1].extras

\* The manifest_work keys of a run in ascending order.
MWKeysOf(run) ==
  SelectSeq(MWKeysAscending, LAMBDA k : k \in DOMAIN run.resources)

\* The first key of keys whose document does not decode along these paths,
\* as <<key>>, or <<>>.
FirstFailing(run, keys, paths) ==
  LET failing == SelectSeq(keys, LAMBDA k : UnmarshalFails(DocAt(run, k), paths))
  IN  IF failing = <<>> THEN <<>> ELSE <<failing[1]>>

\* The format and arguments of the error of the first failing step of a run
\* in the order: sync of every manifest_work key, main document, worker
\* pools of every manifest_work key, certificate; <<>> when no step fails.
FirstFailure(run) ==
  IF FirstFailing(run, MWKeysOf(run), {"metadata.name", "status.conditions"}) # <<>>
  THEN <<"failed to parse ManifestWork sync status for %s: %w",
         FirstFailing(run, MWKeysOf(run), {"metadata.name", "status.conditions"})>>
  ELSE IF /\ MainKey \in DOMAIN run.resources
          /\ UnmarshalFails(DocAt(run, MainKey),
                            {"metadata.labels", "status.resourceStatus"})
  THEN <<"failed to parse main ManifestWork: %w", <<>> >>
  ELSE IF FirstFailing(run, MWKeysOf(run), {"status.resourceStatus"}) # <<>>
  THEN <<"failed to parse NodePool from %s: %w",
         FirstFailing(run, MWKeysOf(run), {"status.resourceStatus"})>>
  ELSE IF /\ run.certKey # <<>>
          /\ UnmarshalFails(DocAt(run, run.certKey[1]), CertificatePaths)
  THEN <<"failed to parse ingress certificate: %w", <<>> >>
  ELSE <<>>

\* C26: the error of parseLiveResources is that of the first failing step in
\* the order: sync parse of every manifest_work key in ascending order, main
\* document, worker-pool parse of every manifest_work key in ascending
\* order, certificate; without a failing step there is no error.
C26_FirstFailingStepReported ==
  last # <<>> =>
    IF FirstFailure(last[1]) = <<>>
    THEN last[1].out.err = <<>>
    ELSE /\ last[1].out.err # <<>>
         /\ last[1].out.status = <<>>
         /\ last[1].out.err[1].format = FirstFailure(last[1])[1]
         /\ last[1].out.err[1].args = FirstFailure(last[1])[2]

\* A call has met a document that fails the worker-pool decode under a
\* smaller key and one that fails the sync decode under a greater key, and
\* has reported the latter.
C26_Witness ==
  /\ last # <<>>
  /\ DOMAIN last[1].resources = {KeyMW_a, KeyMW_b}
  /\ last[1].resources[KeyMW_a] = "DocBadManifests"
  /\ last[1].resources[KeyMW_b] = "DocSyntax"
  /\ last[1].out.err # <<>>
  /\ last[1].out.err[1].args = <<KeyMW_b>>

\* The HostedCluster entries of a document, in document order.
HostedEntries(doc) ==
  SelectSeq(doc.manifests, LAMBDA m : m.Kind = "HostedCluster")

\* C27: with several HostedCluster entries the result has the conditions of
\* the last entry only, while a version field keeps the value of the last
\* entry that has it: a version of an earlier entry stands next to the
\* conditions of a later one.
C27_LastHostedClusterConditions ==
  MainDone =>
    /\ output[1].val[1].Conditions =
         IF HostedEntries(input) = <<>> THEN <<>>
         ELSE parseFeedbackValues(
                HostedEntries(input)[Len(HostedEntries(input))].Values).conditions
    /\ \A i \in 1..Len(HostedEntries(input)) :
         ( /\ Named(HostedEntries(input)[i], N_VersionCurrent) # <<>>
           /\ \A j \in (i + 1)..Len(HostedEntries(input)) :
                Named(HostedEntries(input)[j], N_VersionCurrent) = <<>> )
         => output[1].val[1].Version.Current =
              StoredText(Named(HostedEntries(input)[i], N_VersionCurrent)[1])

\* The parser has run on an entry with a condition and a current version
\* followed by an entry with neither.
C27_Witness ==
  /\ MainDone
  /\ Len(HostedEntries(input)) = 2
  /\ HostedEntries(input)[1].Name = "my-cluster"
  /\ HostedEntries(input)[2].Name = "other-cluster"
  /\ output[1].val[1].Conditions = <<>>
  /\ output[1].val[1].Version.Current = S_V41
  /\ output[1].val[1].Version.Desired = S_V42

\* ------------------------------------------------------------------------
\* The node-resize workflow: resizeNodeOptions.run and
\* resizeControlPlaneNodeOptions.run.  Every subprocess, AWS call and
\* terminal read is an outcome the model draws; log.Fatalln and log.Fatalf
\* end the process at once (os.Exit(1)), so no deferred function runs after
\* them.
\* ------------------------------------------------------------------------

\* The re-prompts of drainRecoveryDialog are unbounded in the code; the model
\* reads at most MaxPrompts lines.
MaxPrompts == 2

\* drainDialogResponse
Undefined == 0
Skip == 1
Force == 2
Cancel == 3

LowerCase ==
  << "a", "b", "c", "d", "e", "f", "g", "h", "i", "j", "k", "l", "m",
     "n", "o", "p", "q", "r", "s", "t", "u", "v", "w", "x", "y", "z" >>

UpperCase ==
  << "A", "B", "C", "D", "E", "F", "G", "H", "I", "J", "K", "L", "M",
     "N", "O", "P", "Q", "R", "S", "T", "U", "V", "W", "X", "Y", "Z" >>

\* unicode.ToUpper of one character of a line of ASCII text.
UpperOf(c) ==
  IF \E k \in 1..Len(LowerCase) : LowerCase[k] = c
  THEN UpperCase[CHOOSE k \in 1..Len(LowerCase) : LowerCase[k] = c]
  ELSE c

\* strings.ToUpper(s), s a line of ASCII text.
ToUpper(s) == [i \in 1..Len(s) |-> UpperOf(s[i])]

S_SKIP == <<"S", "K", "I", "P">>
S_FORCE == <<"F", "O", "R", "C", "E">>
S_CANCEL == <<"C", "A", "N", "C", "E", "L">>

\* The lines an operator types at the prompt of drainRecoveryDialog.
Lines ==
  { <<"s", "k", "i", "p">>, S_SKIP, <<"F", "o", "r", "c", "e">>,
    <<"c", "a", "n", "c", "e", "l">>, <<>>, <<"y", "e", "s">>,
    <<" ", "s", "k", "i", "p">> }

\* The cases of switch response in drainRecoveryDialog.
Recognized(response) == response \in {S_SKIP, S_FORCE, S_CANCEL}

ResponseOf(response) ==
  IF response = S_SKIP THEN Skip
  ELSE IF response = S_FORCE THEN Force
  ELSE Cancel

\* switch dialogResponse in drainNode: Skip goes on, Force drains with
\* --force, Cancel exits; no other value has a case, so drainNode returns.
AfterDialog(response) ==
  IF response = Force THEN "forcedDrain"
  ELSE IF response = Cancel THEN "exit"
  ELSE "stopNode"

Commands == {"resizeNode", "resizeControlPlaneNode"}

\* The first statement of run.
FirstStep(cmd) ==
  IF cmd = "resizeNode" THEN "GetHiveCluster" ELSE "CreateAWSClient"

\* One call the workflow made, with its outcome and, for a read of the
\* terminal, the line read.
Made(name, ok) == [call |-> name, ok |-> ok, text |-> <<>>]

Read(line) == [call |-> "ReadLine", ok |-> TRUE, text |-> line]

Prompts == Cardinality({i \in 1..Len(calls) : calls[i].call = "ReadLine"})

\* The command starts, backplane logged into the target cluster.
InitResize ==
  /\ Idle
  /\ input = <<>>
  /\ output = <<>>
  /\ command \in Commands
  /\ pc = FirstStep(command)
  /\ context = "cluster"
  /\ calls = <<>>
  /\ dialogResponse = Undefined

Rest == UNCHANGED <<resources, clusterID, last, prev, input, output, command>>

\* initAwsCli: utils.GetHiveCluster(targetCluster); an error is fatal.
GetHiveCluster ==
  /\ pc = "GetHiveCluster"
  /\ \E ok \in BOOLEAN :
       /\ calls' = Append(calls, Made("GetHiveCluster", ok))
       /\ pc' = IF ok THEN "SwapOCMContext" ELSE "exit"
  /\ UNCHANGED <<context, dialogResponse>>
  /\ Rest

\* initAwsCli: utils.SwapOCMContext(hiveCluster).  The result is dropped: the
\* err tested next is the nil one of GetHiveCluster.  A login that fails
\* leaves the context where it was.
SwapOCMContext ==
  /\ pc = "SwapOCMContext"
  /\ \E ok \in BOOLEAN :
       /\ calls' = Append(calls, Made("SwapOCMContext", ok))
       /\ context' = IF ok THEN "hive" ELSE context
  /\ pc' = "GetCloudProvider"
  /\ UNCHANGED dialogResponse
  /\ Rest

\* initAwsCli: GetCloudProvider(o.verbose); an error is fatal, and the exit
\* skips the deferred swap.
GetCloudProvider ==
  /\ pc = "GetCloudProvider"
  /\ \E ok \in BOOLEAN :
       /\ calls' = Append(calls, Made("GetCloudProvider", ok))
       /\ pc' = IF ok THEN "deferred" ELSE "exit"
  /\ UNCHANGED <<context, dialogResponse>>
  /\ Rest

\* initAwsCli returns: the deferred utils.SwapOCMContext(targetCluster); an
\* error is fatal.
DeferredSwap ==
  /\ pc = "deferred"
  /\ \E ok \in BOOLEAN :
       /\ calls' = Append(calls, Made("SwapOCMContext", ok))
       /\ context' = IF ok THEN "cluster" ELSE context
       /\ pc' = IF ok THEN "getNodeAwsInstanceData" ELSE "exit"
  /\ UNCHANGED dialogResponse
  /\ Rest

\* resizeControlPlaneNodeOptions.run: clustercloud.CreateAWSClient; an error
\* is returned.
CreateAWSClient ==
  /\ pc = "CreateAWSClient"
  /\ \E ok \in BOOLEAN :
       /\ calls' = Append(calls, Made("CreateAWSClient", ok))
       /\ pc' = IF ok THEN "getNodeAwsInstanceData" ELSE "return"
  /\ UNCHANGED <<context, dialogResponse>>
  /\ Rest

\* getNodeAwsInstanceData: DescribeInstances fails, or answers with no
\* reservation (the index panics), or with an instance that has no Name tag,
\* or with the instance and its machine name.
getNodeAwsInstanceData ==
  /\ pc = "getNodeAwsInstanceData"
  /\ \E answer \in {"error", "empty", "unnamed", "found"} :
       /\ calls' = Append(calls, Made("DescribeInstances", answer # "error"))
       /\ pc' = IF answer = "found" THEN "drainNode" ELSE "exit"
  /\ UNCHANGED <<context, dialogResponse>>
  /\ Rest

\* drainNode: oc adm drain; a failure opens the recovery dialog.
drainNode ==
  /\ pc = "drainNode"
  /\ \E ok \in BOOLEAN :
       /\ calls' = Append(calls, Made("drain", ok))
       /\ pc' = IF ok THEN "stopNode" ELSE "drainRecoveryDialog"
  /\ UNCHANGED <<context, dialogResponse>>
  /\ Rest

drainRecoveryDialog_DefaultReturns ==
  /\ pc = "drainRecoveryDialog"
  /\ Prompts < MaxPrompts
  /\ \E ok \in BOOLEAN :
       \E line \in (IF ok THEN Lines ELSE {<<>>}) :
         IF ~ok
         THEN /\ calls' = Append(calls, Made("ReadLine", FALSE))
              /\ pc' = "exit"
              /\ UNCHANGED dialogResponse
         ELSE /\ calls' = Append(calls, Read(line))
              /\ dialogResponse' =
                   IF Recognized(ToUpper(line)) THEN ResponseOf(ToUpper(line))
                   ELSE Undefined
              /\ pc' = AfterDialog(dialogResponse')
  /\ UNCHANGED context
  /\ Rest

\* drainRecoveryDialog: one line of the terminal.  A read error is fatal; a
\* line that is none of skip, force and cancel in any case prompts again (the
\* function calls itself); otherwise drainNode acts on the response.
drainRecoveryDialog ==
  /\ pc = "drainRecoveryDialog"
  /\ Prompts < MaxPrompts
  /\ \E ok \in BOOLEAN :
       \E line \in (IF ok THEN Lines ELSE {<<>>}) :
         IF ~ok
         THEN /\ calls' = Append(calls, Made("ReadLine", FALSE))
              /\ pc' = "exit"
              /\ UNCHANGED dialogResponse
         ELSE IF Recognized(ToUpper(line))
         THEN /\ calls' = Append(calls, Read(line))
              /\ dialogResponse' = ResponseOf(ToUpper(line))
              /\ pc' = AfterDialog(dialogResponse')
         ELSE /\ calls' = Append(calls, Read(line))
              /\ pc' = "drainRecoveryDialog"
              /\ UNCHANGED dialogResponse
  /\ UNCHANGED context
  /\ Rest

\* drainNode, case Force: oc adm drain --force; an error is fatal.
forcedDrain ==
  /\ pc = "forcedDrain"
  /\ \E ok \in BOOLEAN :
       /\ calls' = Append(calls, Made("forcedDrain", ok))
       /\ pc' = IF ok THEN "stopNode" ELSE "exit"
  /\ UNCHANGED <<context, dialogResponse>>
  /\ Rest

\* stopNode: StopInstances; an error is fatal.
stopNode ==
  /\ pc = "stopNode"
  /\ \E ok \in BOOLEAN :
       /\ calls' = Append(calls, Made("StopInstances", ok))
       /\ pc' = IF ok THEN "WaitUntilInstanceStopped" ELSE "exit"
  /\ UNCHANGED <<context, dialogResponse>>
  /\ Rest

WaitUntilInstanceStopped_IgnoresError ==
  /\ pc = "WaitUntilInstanceStopped"
  /\ \E ok \in BOOLEAN :
       /\ calls' = Append(calls, Made("WaitUntilInstanceStopped", ok))
       /\ pc' = "modifyInstanceAttribute"
  /\ UNCHANGED <<context, dialogResponse>>
  /\ Rest

\* stopNode: WaitUntilInstanceStopped, once the stop is requested; an error
\* is fatal.
WaitUntilInstanceStopped ==
  /\ pc = "WaitUntilInstanceStopped"
  /\ \E ok \in BOOLEAN :
       /\ calls' = Append(calls, Made("WaitUntilInstanceStopped", ok))
       /\ pc' = IF ok THEN "modifyInstanceAttribute" ELSE "exit"
  /\ UNCHANGED <<context, dialogResponse>>
  /\ Rest

\* modifyInstanceAttribute: ModifyInstanceAttribute; an error is fatal.
modifyInstanceAttribute ==
  /\ pc = "modifyInstanceAttribute"
  /\ \E ok \in BOOLEAN :
       /\ calls' = Append(calls, Made("ModifyInstanceAttribute", ok))
       /\ pc' = IF ok THEN "startNode" ELSE "exit"
  /\ UNCHANGED <<context, dialogResponse>>
  /\ Rest

\* startNode: StartInstances; an error is fatal.
startNode ==
  /\ pc = "startNode"
  /\ \E ok \in BOOLEAN :
       /\ calls' = Append(calls, Made("StartInstances", ok))
       /\ pc' = IF ok THEN "WaitUntilInstanceRunning" ELSE "exit"
  /\ UNCHANGED <<context, dialogResponse>>
  /\ Rest

\* startNode: WaitUntilInstanceRunning, once the start is requested; an
\* error is fatal.
WaitUntilInstanceRunning ==
  /\ pc = "WaitUntilInstanceRunning"
  /\ \E ok \in BOOLEAN :
       /\ calls' = Append(calls, Made("WaitUntilInstanceRunning", ok))
       /\ pc' = IF ok THEN "uncordonNode" ELSE "exit"
  /\ UNCHANGED <<context, dialogResponse>>
  /\ Rest

\* uncordonNode: oc adm uncordon; an error is fatal.
uncordonNode ==
  /\ pc = "uncordonNode"
  /\ \E ok \in BOOLEAN :
       /\ calls' = Append(calls, Made("uncordon", ok))
       /\ pc' = IF ok THEN "confirm" ELSE "exit"
  /\ UNCHANGED <<context, dialogResponse>>
  /\ Rest

\* run: utils.ConfirmSend(), twice; the operator confirms (true, or a nil
\* error) or declines, and declining returns from run.
ConfirmSend ==
  /\ pc \in {"confirm", "confirmPatch"}
  /\ \E confirmed \in BOOLEAN :
       /\ calls' = Append(calls, Made("ConfirmSend", confirmed))
       /\ pc' = IF ~confirmed THEN "return"
                ELSE IF pc = "confirm" THEN "confirmPatch"
                ELSE "patchMachineType"
  /\ UNCHANGED <<context, dialogResponse>>
  /\ Rest

\* patchMachineType: oc patch machine; an error is fatal, otherwise run
\* returns nil.
patchMachineType ==
  /\ pc = "patchMachineType"
  /\ \E ok \in BOOLEAN :
       /\ calls' = Append(calls, Made("patch", ok))
       /\ pc' = IF ok THEN "return" ELSE "exit"
  /\ UNCHANGED <<context, dialogResponse>>
  /\ Rest

NextResize ==
  \/ GetHiveCluster
  \/ SwapOCMContext
  \/ GetCloudProvider
  \/ DeferredSwap
  \/ CreateAWSClient
  \/ getNodeAwsInstanceData
  \/ drainNode
  \/ drainRecoveryDialog
  \/ forcedDrain
  \/ stopNode
  \/ WaitUntilInstanceStopped
  \/ modifyInstanceAttribute
  \/ startNode
  \/ WaitUntilInstanceRunning
  \/ uncordonNode
  \/ ConfirmSend
  \/ patchMachineType

SpecResize == InitResize /\ [][NextResize]_vars

\* ------------------------------------------------------------------------
\* C28..C30: the node-resize workflow (SpecResize).
\* ------------------------------------------------------------------------

\* The steps of a resize in the order the workflow is to take them.
StepOrder ==
  << "DescribeInstances", "drain", "StopInstances", "WaitUntilInstanceStopped",
     "ModifyInstanceAttribute", "StartInstances", "WaitUntilInstanceRunning",
     "uncordon", "ConfirmSend", "ConfirmSend", "patch" >>

\* The positions of calls that are steps of the resize itself: not the set-up
\* of the AWS client, and not the recovery inside the drain step.
StepPositions ==
  {i \in 1..Len(calls) : \E k \in 1..Len(StepOrder) : StepOrder[k] = calls[i].call}

\* The k-th smallest member of a set of positions.
RECURSIVE Nth(_, _)
Nth(S, k) ==
  LET m == CHOOSE x \in S : \A y \in S : x <= y
  IN IF k = 1 THEN m ELSE Nth(S \ {m}, k - 1)

StepsTaken ==
  [k \in 1..Cardinality(StepPositions) |-> calls[Nth(StepPositions, k)].call]

SucceededBefore(name, before) ==
  Cardinality({j \in 1..(before - 1) : calls[j].call = name /\ calls[j].ok})

\* C28: the steps of a resize are taken in the fixed order look up, drain,
\* stop, wait until stopped, modify, start, wait until running, uncordon,
\* confirm, confirm, patch; the instance type is modified only after a
\* successful wait until stopped, the machine is patched only after two
\* confirmations, and a declined confirmation is the last thing the run does.
C28_StepsInOrder ==
  /\ Len(StepsTaken) <= Len(StepOrder)
  /\ StepsTaken = SubSeq(StepOrder, 1, Len(StepsTaken))
  /\ \A i \in 1..Len(calls) :
       /\ calls[i].call = "ModifyInstanceAttribute" =>
            SucceededBefore("WaitUntilInstanceStopped", i) = 1
       /\ calls[i].call = "patch" => SucceededBefore("ConfirmSend", i) = 2
       /\ (calls[i].call = "ConfirmSend" /\ ~calls[i].ok) =>
            (i = Len(calls) /\ pc = "return")

\* A run that took every step and patched the machine.
C28_Witness ==
  /\ pc = "return"
  /\ StepsTaken = StepOrder
  /\ calls[Len(calls)] = Made("patch", TRUE)

\* The steps of initAwsCli, during which the context may point at the hive.
InitAwsCliSteps == {"GetHiveCluster", "SwapOCMContext", "GetCloudProvider", "deferred"}

\* C29: once initAwsCli is over, whether the command goes on or has ended,
\* the context points at the target cluster again.
C29_ContextRestored ==
  pc \notin InitAwsCliSteps => context = "cluster"

\* The positions of the lines read by drainRecoveryDialog.
Answers == {i \in 1..Len(calls) : calls[i].call = "ReadLine" /\ calls[i].ok}

Answered(response) ==
  \E i \in Answers : ToUpper(calls[i].text) = response

Called(name) == \E i \in 1..Len(calls) : calls[i].call = name

DrainFailed == \E i \in 1..Len(calls) : calls[i] = Made("drain", FALSE)

\* C30: after a failed drain the instance is stopped only if the operator
\* answered skip, or answered force and the forced drain succeeded; after
\* cancel or a failed forced drain the process has exited and no instance
\* was stopped, modified or started; a line that is none of the three is
\* followed by nothing but another prompt, and drainNode never acts on
\* Undefined.
C30_DrainRecovery ==
  /\ (DrainFailed /\ Called("StopInstances")) =>
       \/ Answered(S_SKIP)
       \/ Answered(S_FORCE) /\ \E i \in 1..Len(calls) : calls[i] = Made("forcedDrain", TRUE)
  /\ (Answered(S_CANCEL) \/ \E i \in 1..Len(calls) : calls[i] = Made("forcedDrain", FALSE)) =>
       /\ pc = "exit"
       /\ ~Called("StopInstances")
       /\ ~Called("ModifyInstanceAttribute")
       /\ ~Called("StartInstances")
  /\ \A i \in Answers :
       ~Recognized(ToUpper(calls[i].text)) =>
         IF i = Len(calls) THEN pc = "drainRecoveryDialog"
         ELSE calls[i + 1].call = "ReadLine"
  /\ (DrainFailed /\ pc \notin {"drainRecoveryDialog", "exit"}) =>
       dialogResponse \in {Skip, Force, Cancel}

\* The drain failed, the operator typed a line that is no answer and then
\* force, the forced drain succeeded and the instance was stopped.
C30_Witness ==
  /\ DrainFailed
  /\ \E i \in Answers : ~Recognized(ToUpper(calls[i].text))
  /\ Answered(S_FORCE)
  /\ \E i \in 1..Len(calls) : calls[i] = Made("forcedDrain", TRUE)
  /\ \E i \in 1..Len(calls) : calls[i] = Made("StopInstances", TRUE)

====
